---------------------------- MODULE Spec2Model ----------------------------
(***************************************************************************)
(* A model of generate.py (music-league-stats): the aggregators that turn  *)
(* the competitors, votes and submissions CSV exports into voter           *)
(* statistics, the giver -> receiver point matrix, the top tracks and top  *)
(* artists and the point histogram, the ordering build_html gives the      *)
(* voters, and the sort key of the display names.                          *)
(*                                                                         *)
(* Strings that the program compares, sorts or normalises (ids, display    *)
(* names) are sequences of Unicode code points; strings it only copies     *)
(* (uris, round ids, titles, artists) are TLA+ strings.                    *)
(*                                                                         *)
(* A CSV file is the sequence of the rows read from it so far and a flag   *)
(* telling that its end has been seen.  A reader at position i gets row i  *)
(* when the file is known that far; otherwise the file yields any row of   *)
(* the row set (the content of the file is the environment's choice) or    *)
(* ends.  Once a file has ended its content is fixed, so a second pass     *)
(* over it (generate.py reads votes.csv and submissions.csv several times)  *)
(* sees the same rows.                                                     *)
(***************************************************************************)
EXTENDS Integers, Sequences, FiniteSets, TLC

\* ------------------------------------------------------------------ bounds

MaxVotes == 2           \* rows of votes.csv (matrix, top tracks, top artists)
MaxStatsVotes == 3      \* rows of votes.csv (voter statistics)
MaxSubmissions == 2     \* rows of submissions.csv
MaxRounds == 2          \* rows of rounds.csv
MaxCompetitors == 3     \* items of the competitors dict (ordering)
MaxVoters == 3          \* VoterStats records given to build_html
MaxTopN == 3            \* the largest top_n
MaxHistVotes == 3       \* rows of votes.csv (point histogram)
MaxNameLen == 3         \* code points of a name given to _name_sort_key

\* ----------------------------------------------------------------- strings

\* "c1", "c2", "c3": competitor ids; "x9": an id no competitors.csv row has.
Id_c1 == <<99, 49>>
Id_c2 == <<99, 50>>
Id_c3 == <<99, 51>>
Id_x9 == <<120, 57>>

\* Display names: "Zoe", "amy", "Amy", "bob", and U+2600 (an emoji of the
\* stripped ranges) followed by " amy".
Name_Zoe == <<90, 111, 101>>
Name_amy == <<97, 109, 121>>
Name_Amy == <<65, 109, 121>>
Name_bob == <<98, 111, 98>>
Name_sun_amy == <<9728, 32, 97, 109, 121>>

\* A code point _EMOJI_PATTERN matches.
IsEmoji(c) ==
    \/ c \in 127744..129535     \* U+1F300-U+1F9FF
    \/ c \in 128512..128591     \* U+1F600-U+1F64F
    \/ c \in 128640..128767     \* U+1F680-U+1F6FF
    \/ c \in 127456..127487     \* U+1F1E0-U+1F1FF
    \/ c \in 9728..9983         \* U+2600-U+26FF
    \/ c \in 9984..10175        \* U+2700-U+27BF

\* A code point str.strip() removes (the ASCII ones and U+0085, U+00A0).
IsSpace(c) == c \in (9..13) \cup (28..32) \cup {133, 160}

\* A mutant of str.lower(): the code point as it is.
LowerCharIdentity(c) == c

\* str.lower() on one code point but the capital sigma (Basic Latin; the
\* other code points of the model's alphabet have no lowercase mapping).
LowerChar(c) == IF c \in 65..90 THEN c + 32 ELSE c

\* A cased code point (of those the model uses: Basic Latin letters and the
\* Greek sigmas).
IsCased(c) == c \in (65..90) \cup (97..122) \cup {931, 962, 963}

\* str.lower() maps a capital sigma (U+03A3) to the final sigma (U+03C2) when
\* it follows a cased code point and none follows it, and to the small sigma
\* (U+03C3) otherwise.  (No code point of the model is case-ignorable.)
FinalSigma(s, k) ==
    /\ k > 1 /\ IsCased(s[k - 1])
    /\ ~(k < Len(s) /\ IsCased(s[k + 1]))

\* str.lower()
Lower(s) ==
    [k \in 1..Len(s) |->
        IF s[k] = 931 THEN (IF FinalSigma(s, k) THEN 962 ELSE 963)
        ELSE LowerChar(s[k])]

\* str.strip(): drop leading and trailing whitespace.
Strip(s) ==
    LET keep == {k \in 1..Len(s) : ~IsSpace(s[k])}
    IN  IF keep = {} THEN <<>>
        ELSE LET lo == CHOOSE k \in keep : \A l \in keep : k <= l
                 hi == CHOOSE k \in keep : \A l \in keep : l <= k
             IN  SubSeq(s, lo, hi)

\* _EMOJI_PATTERN.sub("", name)
RemoveEmoji(s) == SelectSeq(s, LAMBDA c : ~IsEmoji(c))

\* Python's str < str: lexicographic on code points.
StrLess(a, b) ==
    \E i \in 1..Len(b) :
        /\ \A j \in 1..(i - 1) : j <= Len(a) /\ a[j] = b[j]
        /\ (i > Len(a) \/ a[i] < b[i])

\* A mutant of _name_sort_key: no fallback to the lowercase name.
NameSortKeyNoFallback(name) == Lower(Strip(RemoveEmoji(name)))

\* _name_sort_key(name)
NameSortKey(name) ==
    LET cleaned == Lower(Strip(RemoveEmoji(name)))
    IN  IF cleaned # <<>> THEN cleaned ELSE Lower(name)

\* ------------------------------------------------------------- dictionaries

\* competitors: Dict[str, str] as the sequence of its items in insertion
\* order (Python dicts keep it), each <<id, name>>, ids distinct.
DictKeys(d) == [k \in 1..Len(d) |-> d[k][1]]

DictHas(d, key) == \E k \in 1..Len(d) : d[k][1] = key

\* d[key], for a key of d
DictAt(d, key) == d[CHOOSE k \in 1..Len(d) : d[k][1] = key][2]

\* d.get(key, default)
DictGet(d, key, default) == IF DictHas(d, key) THEN DictAt(d, key) ELSE default

\* The dictionaries of at most n items with keys in Ids and values in Names.
Dicts(Ids, Names, n) ==
    {d \in UNION {[1..k -> Ids \X Names] : k \in 0..n} :
        \A i, j \in 1..Len(d) : i < j => d[i][1] # d[j][1]}

\* A mutant of the assignment: the first value of a key is kept.
MapPutIfAbsent(f, key, value) ==
    [x \in (DOMAIN f) \cup {key} |-> IF x \in DOMAIN f THEN f[x] ELSE value]

\* A Dict as a TLA+ function of its keys (submission_map, index_for):
\* f[key] = value; the empty dict is the empty function.
MapPut(f, key, value) ==
    [x \in (DOMAIN f) \cup {key} |-> IF x = key THEN value ELSE f[x]]

\* f.get(key): {} for None, {value} otherwise.
MapGet(f, key) == IF key \in DOMAIN f THEN {f[key]} ELSE {}

\* sorted(items, key=...), for string keys: Python's sort is stable.  pairs
\* is the sequence of <<key, item>>; each pair goes behind the pairs whose
\* key is not greater.
RECURSIVE InsertAscending(_, _)
InsertAscending(sorted, pair) ==
    IF sorted = <<>> THEN <<pair>>
    ELSE IF StrLess(pair[1], Head(sorted)[1]) THEN <<pair>> \o sorted
    ELSE <<Head(sorted)>> \o InsertAscending(Tail(sorted), pair)

RECURSIVE SortedAscending(_)
SortedAscending(pairs) ==
    IF pairs = <<>> THEN <<>>
    ELSE InsertAscending(SortedAscending(SubSeq(pairs, 1, Len(pairs) - 1)),
                         pairs[Len(pairs)])

RECURSIVE SeqSum(_)
SeqSum(s) == IF s = <<>> THEN 0 ELSE Head(s) + SeqSum(Tail(s))

\* ------------------------------------------------------------------ int()

Digits == 48..57

RECURSIVE DigitsValue(_)
DigitsValue(s) ==
    IF s = <<>> THEN 0
    ELSE 10 * DigitsValue(SubSeq(s, 1, Len(s) - 1)) + (s[Len(s)] - 48)

\* int(text): surrounding whitespace is dropped, then an optional sign and
\* one or more decimal digits; anything else raises ValueError (ok = FALSE).
ParseInt(text) ==
    LET t      == Strip(text)
        signed == t # <<>> /\ t[1] \in {43, 45}
        digits == IF signed THEN Tail(t) ELSE t
    IN  IF digits # <<>> /\ \A k \in 1..Len(digits) : digits[k] \in Digits
        THEN [ok |-> TRUE,
              value |-> IF signed /\ t[1] = 45 THEN 0 - DigitsValue(digits)
                        ELSE DigitsValue(digits)]
        ELSE [ok |-> FALSE, value |-> 0]

\* "Points Assigned" fields: "-1", "0", "1", "2".
PointTexts == {<<45, 49>>, <<48>>, <<49>>, <<50>>}

\* "-1", "0", "2"
FewPointTexts == {<<45, 49>>, <<48>>, <<50>>}

\* ------------------------------------------------------------------- files

VARIABLES
    competitors,        \* the competitors dict the aggregators are given
    votes_csv,          \* the rows of votes.csv read so far
    votes_eof,          \* votes.csv has been read to its end
    submissions_csv,    \* the rows of submissions.csv read so far
    submissions_eof,    \* submissions.csv has been read to its end
    rounds_exists,      \* rounds_path.exists()
    rounds_csv,         \* the rows of rounds.csv read so far
    rounds_eof          \* rounds.csv has been read to its end

\* build_vote_matrix
VARIABLES
    m_pc,               \* where build_vote_matrix is
    m_i,                \* the position of its reader in the file it reads
    submission_map,     \* (round_id, uri) -> submitter_id
    competitor_ids,     \* the competitor ids, sorted
    names,              \* the display names, in that order
    index_for,          \* competitor id -> position (from 1; Python: from 0)
    matrix              \* the point matrix

\* load_voter_stats
VARIABLES
    s_pc,               \* where load_voter_stats is
    s_i,                \* the position of its reader in votes.csv
    stats_map,          \* voter id -> VoterStats: the records, in insertion order
    voter_stats         \* the list it returns

\* build_html
VARIABLES
    h_pc,               \* where build_html is
    voters,             \* the VoterStats list it is given
    voters_sorted,
    chart_labels,
    chart_values,       \* in hundredths
    table_rows          \* the averages in hundredths

\* build_top_tracks
VARIABLES
    t_pc,               \* where build_top_tracks is
    t_i,                \* the position of its reader in the file it reads
    t_top_n,            \* top_n
    t_submission_map,   \* the map line 155 loads (and nothing reads)
    track_points,       \* (round_id, uri) -> total points
    rounds_rows,        \* load_rounds: the (id, name, created) read so far
    round_names,        \* round id -> round name
    tracks,             \* one dict per submission row
    top_tracks          \* the list it returns

\* build_top_artists
VARIABLES
    a_pc,               \* where build_top_artists is
    a_i,                \* the position of its reader in the file it reads
    a_top_n,            \* top_n
    a_track_points,     \* (round_id, uri) -> total points
    artist_points,      \* artist -> points: the items, in insertion order
    top_artists         \* the list it returns

\* build_point_histogram
VARIABLES
    p_pc,               \* where build_point_histogram is
    p_i,                \* the position of its reader in votes.csv
    counts,             \* point value -> number of votes
    histogram           \* the list it returns

\* _name_sort_key, called on a name, on a name that differs from it in letter
\* case at most, and on its own result
VARIABLES
    k_pc,               \* which calls have returned
    k_name,             \* the name
    k_key,              \* _name_sort_key(name)
    k_other,            \* the other name
    k_other_key,        \* _name_sort_key(other name)
    k_key2              \* _name_sort_key(_name_sort_key(name))

\* main
VARIABLES
    main_pc,            \* where main is
    missing,            \* the input files that do not exist
    competitors_csv,    \* the rows of competitors.csv
    index_html          \* what has been written to index.html, write by write

votes_file == <<votes_csv, votes_eof>>
submissions_file == <<submissions_csv, submissions_eof>>
rounds_file == <<rounds_exists, rounds_csv, rounds_eof>>
mvars == <<m_pc, m_i, submission_map, competitor_ids, names, index_for, matrix>>
svars == <<s_pc, s_i, stats_map, voter_stats>>
hvars == <<h_pc, voters, voters_sorted, chart_labels, chart_values, table_rows>>
tvars == <<t_pc, t_i, t_top_n, t_submission_map, track_points, rounds_rows,
           round_names, tracks, top_tracks>>
avars == <<a_pc, a_i, a_top_n, a_track_points, artist_points, top_artists>>
pvars == <<p_pc, p_i, counts, histogram>>
kvars == <<k_pc, k_name, k_key, k_other, k_other_key, k_key2>>
wvars == <<main_pc, missing, competitors_csv, index_html>>
vars == <<competitors, votes_file, submissions_file, rounds_file,
          mvars, svars, hvars, tvars, avars, pvars, kvars, wvars>>

\* What csv.DictReader yields at position i of a file.
RowsAt(file, eof, i, Rows, max) ==
    IF i <= Len(file) THEN {file[i]}
    ELSE IF ~eof /\ Len(file) < max THEN Rows ELSE {}

\* The reader at position i finds the end of the file.
AtEnd(file, i) == i = Len(file) + 1

\* The file once the reader at position i has got row.
Known(file, i, row) == IF i <= Len(file) THEN file ELSE Append(file, row)

Rounds == {"r1", "r2"}

\* votes.csv rows: the columns the aggregators read.
VoteRows(Voters, Keys, Points) ==
    {[voter_id |-> v, round_id |-> k[1], uri |-> k[2], points |-> p] :
        v \in Voters, k \in Keys, p \in Points}

\* submissions.csv rows: the columns the aggregators read.
SubmissionRows(Submitters, Keys, Artists) ==
    {[round_id |-> k[1], uri |-> k[2], title |-> k[2], artist |-> a,
      submitter_id |-> s] : s \in Submitters, k \in Keys, a \in Artists}

\* ------------------------------------------------------- build_vote_matrix

\* A mutant of the competitor ordering: by the raw display name.
CompetitorOrderRaw(comps) ==
    LET pairs == [k \in 1..Len(comps) |-> <<comps[k][2], comps[k][1]>>]
        done  == SortedAscending(pairs)
    IN  [k \in 1..Len(done) |-> done[k][2]]

\* sorted(competitors.keys(), key=lambda cid: _name_sort_key(competitors[cid]))
CompetitorOrder(comps) ==
    LET pairs == [k \in 1..Len(comps) |->
                    <<NameSortKey(DictAt(comps, comps[k][1])), comps[k][1]>>]
        done  == SortedAscending(pairs)
    IN  [k \in 1..Len(done) |-> done[k][2]]

\* A mutant of the submission lookup: by the uri alone, whatever the round.
SubmitterLookupByUri(map, round_id, uri) ==
    IF \E k \in DOMAIN map : k[2] = uri
    THEN {map[CHOOSE k \in DOMAIN map : k[2] = uri]}
    ELSE {}

\* submission_map.get((round_id, uri))
SubmitterLookup(map, round_id, uri) == MapGet(map, <<round_id, uri>>)

\* A mutant of the self-vote test: it is never taken.
IsSelfVoteNever(voter_id, submitter_id) == FALSE

\* voter_id == submitter_id
IsSelfVote(voter_id, submitter_id) == voter_id = submitter_id

\* A mutant of the points test: no vote is skipped for its points.
SkipsPointsNever(points) == FALSE

\* points <= 0
SkipsPoints(points) == points <= 0

\* A mutant of the accumulation: a vote counts one.
AddPointsOne(m, giver_idx, receiver_idx, points) ==
    [m EXCEPT ![giver_idx][receiver_idx] = @ + 1]

\* matrix[giver_idx][receiver_idx] += points
AddPoints(m, giver_idx, receiver_idx, points) ==
    [m EXCEPT ![giver_idx][receiver_idx] = @ + points]

\* The matrix after one vote row (the body of the loop over votes.csv).
MatrixAfterVote(m, map, index, voter_id, round_id, uri, points) ==
    LET submitter == SubmitterLookup(map, round_id, uri)
    IN  IF SkipsPoints(points) THEN m
        ELSE IF submitter = {} THEN m
        ELSE LET submitter_id == CHOOSE s \in submitter : TRUE
                 giver        == MapGet(index, voter_id)
                 receiver     == MapGet(index, submitter_id)
             IN  IF IsSelfVote(voter_id, submitter_id) THEN m
                 ELSE IF giver = {} \/ receiver = {} THEN m
                 ELSE AddPoints(m, CHOOSE g \in giver : TRUE,
                                CHOOSE r \in receiver : TRUE, points)

\* _load_submission_map, one row: submission_map[(round_id, uri)] = submitter
M_SubmissionRow(Rows) ==
    /\ m_pc = "submissions"
    /\ \E row \in RowsAt(submissions_csv, submissions_eof, m_i, Rows, MaxSubmissions) :
        /\ submissions_csv' = Known(submissions_csv, m_i, row)
        /\ submission_map' =
             MapPut(submission_map, <<row.round_id, row.uri>>, row.submitter_id)
    /\ m_i' = m_i + 1
    /\ UNCHANGED <<pvars, kvars, wvars, competitors, votes_file, submissions_eof, rounds_file,
                   m_pc, competitor_ids, names, index_for, matrix,
                   svars, hvars, tvars, avars>>

\* _load_submission_map returns at the end of submissions.csv.
M_SubmissionsEnd ==
    /\ m_pc = "submissions"
    /\ AtEnd(submissions_csv, m_i)
    /\ submissions_eof' = TRUE
    /\ m_pc' = "order"
    /\ UNCHANGED <<pvars, kvars, wvars, competitors, votes_file, submissions_csv, rounds_file,
                   m_i, submission_map, competitor_ids, names, index_for, matrix,
                   svars, hvars, tvars, avars>>

\* The ordering, the names, index_for and the zero matrix.
M_Order ==
    /\ m_pc = "order"
    /\ LET ids == CompetitorOrder(competitors)
           size == Len(ids)
       IN  /\ competitor_ids' = ids
           /\ names' = [k \in 1..size |-> DictAt(competitors, ids[k])]
           /\ index_for' = [cid \in {ids[k] : k \in 1..size} |->
                              CHOOSE k \in 1..size : ids[k] = cid]
           /\ matrix' = [g \in 1..size |-> [r \in 1..size |-> 0]]
    /\ m_pc' = "votes"
    /\ m_i' = 1
    /\ UNCHANGED <<pvars, kvars, wvars, competitors, votes_file, submissions_file, rounds_file,
                   submission_map, svars, hvars, tvars, avars>>

\* One row of votes.csv.
M_VoteRow(Rows) ==
    /\ m_pc = "votes"
    /\ \E row \in RowsAt(votes_csv, votes_eof, m_i, Rows, MaxVotes) :
        LET points == ParseInt(row.points)
        IN  /\ votes_csv' = Known(votes_csv, m_i, row)
            /\ IF points.ok
               THEN /\ matrix' = MatrixAfterVote(matrix, submission_map, index_for,
                                     row.voter_id, row.round_id, row.uri, points.value)
                    /\ m_pc' = m_pc
               ELSE /\ matrix' = matrix
                    /\ m_pc' = "error"
    /\ m_i' = m_i + 1
    /\ UNCHANGED <<pvars, kvars, wvars, competitors, votes_eof, submissions_file, rounds_file,
                   submission_map, competitor_ids, names, index_for,
                   svars, hvars, tvars, avars>>

\* The end of votes.csv: return names, matrix.
M_VotesEnd ==
    /\ m_pc = "votes"
    /\ AtEnd(votes_csv, m_i)
    /\ votes_eof' = TRUE
    /\ m_pc' = "done"
    /\ UNCHANGED <<pvars, kvars, wvars, competitors, votes_csv, submissions_file, rounds_file,
                   m_i, submission_map, competitor_ids, names, index_for, matrix,
                   svars, hvars, tvars, avars>>

\* -------------------------------------------------------------- VoterStats

\* a / b on ints: a float, kept as the exact fraction <<a, b>>, b > 0;
\* ok = FALSE is ZeroDivisionError.
TrueDiv(a, b) ==
    IF b = 0 THEN [ok |-> FALSE, num |-> 0, den |-> 1]
    ELSE [ok |-> TRUE, num |-> a, den |-> b]

\* 0.0
FloatZero == [ok |-> TRUE, num |-> 0, den |-> 1]

FloatLess(x, y) == x.num * y.den < y.num * x.den
FloatEq(x, y) == x.num * y.den = y.num * x.den

\* A mutant of avg_points_per_vote: no test for zero votes.
AvgPointsPerVoteUnguarded(v) == TrueDiv(v.total_points, v.num_votes)

\* VoterStats.avg_points_per_vote
AvgPointsPerVote(v) ==
    IF v.num_votes = 0 THEN FloatZero
    ELSE TrueDiv(v.total_points, v.num_votes)

\* VoterStats.avg_points_when_positive
AvgPointsWhenPositive(v) ==
    IF v.num_positive_votes = 0 THEN FloatZero
    ELSE TrueDiv(v.total_points, v.num_positive_votes)

\* round(x, 2), in hundredths: the nearest hundredth, the even one of two
\* equally near (the fractions of the model have denominators below 8, which
\* are never halfway between two hundredths as floats either).
Round2(x) ==
    LET n == 100 * x.num
        q == n \div x.den
        r == n % x.den
    IN  IF 2 * r < x.den THEN q
        ELSE IF 2 * r > x.den THEN q + 1
        ELSE IF q % 2 = 0 THEN q ELSE q + 1

\* VoterStats(voter_id=..., name=...)
NewVoterStats(voter_id, name) ==
    [voter_id |-> voter_id, name |-> name, total_points |-> 0,
     num_votes |-> 0, num_positive_votes |-> 0]

\* -------------------------------------------------------- load_voter_stats

\* A mutant of the accumulation: only positive points are added up.
AccumulatePositiveOnly(st, points) ==
    [st EXCEPT !.total_points = IF points > 0 THEN @ + points ELSE @,
               !.num_votes = @ + 1,
               !.num_positive_votes = IF points > 0 THEN @ + 1 ELSE @]

\* A mutant of the accumulation: a vote without positive points is skipped.
AccumulateSkipsNonPositive(st, points) ==
    IF points > 0
    THEN [st EXCEPT !.total_points = @ + points,
                    !.num_votes = @ + 1,
                    !.num_positive_votes = @ + 1]
    ELSE st

\* s.total_points += points; s.num_votes += 1; if points > 0: ...
Accumulate(st, points) ==
    [st EXCEPT !.total_points = @ + points,
               !.num_votes = @ + 1,
               !.num_positive_votes = IF points > 0 THEN @ + 1 ELSE @]

\* A mutant of the display name: the id, whatever competitors holds.
VoterNameIsId(comps, voter_id) == voter_id

\* competitors.get(voter_id, voter_id)
VoterName(comps, voter_id) == DictGet(comps, voter_id, voter_id)

\* stats_map after one vote row.
StatsAfterVote(map, comps, voter_id, points) ==
    LET known == \E k \in 1..Len(map) : map[k].voter_id = voter_id
        with  == IF known THEN map
                 ELSE Append(map, NewVoterStats(voter_id, VoterName(comps, voter_id)))
    IN  [k \in 1..Len(with) |->
            IF with[k].voter_id = voter_id THEN Accumulate(with[k], points)
            ELSE with[k]]

\* One row of votes.csv.
S_VoteRow(Rows) ==
    /\ s_pc = "votes"
    /\ \E row \in RowsAt(votes_csv, votes_eof, s_i, Rows, MaxStatsVotes) :
        LET points == ParseInt(row.points)
        IN  /\ votes_csv' = Known(votes_csv, s_i, row)
            /\ IF points.ok
               THEN /\ stats_map' = StatsAfterVote(stats_map, competitors,
                                                    row.voter_id, points.value)
                    /\ s_pc' = s_pc
               ELSE /\ stats_map' = stats_map
                    /\ s_pc' = "error"
    /\ s_i' = s_i + 1
    /\ UNCHANGED <<pvars, kvars, wvars, competitors, votes_eof, submissions_file, rounds_file,
                   voter_stats, mvars, hvars, tvars, avars>>

\* The end of votes.csv: return list(stats_map.values()).
S_VotesEnd ==
    /\ s_pc = "votes"
    /\ AtEnd(votes_csv, s_i)
    /\ votes_eof' = TRUE
    /\ voter_stats' = stats_map
    /\ s_pc' = "done"
    /\ UNCHANGED <<pvars, kvars, wvars, competitors, votes_csv, submissions_file, rounds_file,
                   s_i, stats_map, mvars, hvars, tvars, avars>>

\* -------------------------------------------------------------- build_html

\* The key of the sort: (v.avg_points_per_vote, v.total_points)
SortKeyLess(v, w) ==
    LET x == AvgPointsPerVote(v)
        y == AvgPointsPerVote(w)
    IN  FloatLess(x, y) \/ (FloatEq(x, y) /\ v.total_points < w.total_points)

\* sorted(..., reverse=True): descending, and stable as well (records with
\* equal keys keep their order): each record goes before the first one whose
\* key is smaller.
RECURSIVE InsertDescending(_, _)
InsertDescending(sorted, v) ==
    IF sorted = <<>> THEN <<v>>
    ELSE IF SortKeyLess(Head(sorted), v) THEN <<v>> \o sorted
    ELSE <<Head(sorted)>> \o InsertDescending(Tail(sorted), v)

\* A mutant of the sort: by the average alone.
RECURSIVE InsertDescendingByAvg(_, _)
InsertDescendingByAvg(sorted, v) ==
    IF sorted = <<>> THEN <<v>>
    ELSE IF FloatLess(AvgPointsPerVote(Head(sorted)), AvgPointsPerVote(v))
         THEN <<v>> \o sorted
    ELSE <<Head(sorted)>> \o InsertDescendingByAvg(Tail(sorted), v)

RECURSIVE VotersSortedByAvg(_)
VotersSortedByAvg(vs) ==
    IF vs = <<>> THEN <<>>
    ELSE InsertDescendingByAvg(VotersSortedByAvg(SubSeq(vs, 1, Len(vs) - 1)),
                               vs[Len(vs)])

RECURSIVE SortedDescending(_)
SortedDescending(vs) ==
    IF vs = <<>> THEN <<>>
    ELSE InsertDescending(SortedDescending(SubSeq(vs, 1, Len(vs) - 1)), vs[Len(vs)])

\* sorted(voters, key=lambda v: (v.avg_points_per_vote, v.total_points),
\*        reverse=True)
VotersSorted(vs) == SortedDescending(vs)

\* One dict of table_rows.
TableRow(rank, v) ==
    [rank |-> rank, name |-> v.name, total_points |-> v.total_points,
     num_votes |-> v.num_votes, num_positive_votes |-> v.num_positive_votes,
     avg_points_per_vote |-> Round2(AvgPointsPerVote(v)),
     avg_points_when_positive |-> Round2(AvgPointsWhenPositive(v))]

\* build_html, up to the payload of the page: the sort, the chart lists and
\* the table rows.  A division error in a property ends it.
H_Build ==
    /\ h_pc = "start"
    /\ IF \A k \in 1..Len(voters) :
            AvgPointsPerVote(voters[k]).ok /\ AvgPointsWhenPositive(voters[k]).ok
       THEN LET sorted == VotersSorted(voters)
            IN  /\ voters_sorted' = sorted
                /\ chart_labels' = [k \in 1..Len(sorted) |-> sorted[k].name]
                /\ chart_values' = [k \in 1..Len(sorted) |->
                                       Round2(AvgPointsPerVote(sorted[k]))]
                /\ table_rows' = [k \in 1..Len(sorted) |-> TableRow(k, sorted[k])]
                /\ h_pc' = "done"
       ELSE /\ h_pc' = "error"
            /\ UNCHANGED <<voters_sorted, chart_labels, chart_values, table_rows>>
    /\ UNCHANGED <<pvars, kvars, wvars, competitors, votes_file, submissions_file, rounds_file,
                   voters, mvars, svars, tvars, avars>>

\* ----------------------------------------------------------- sort and slice

\* sorted(..., key=points, reverse=True) and list.sort(..., reverse=True) on
\* <<points, item>> pairs: descending and stable, each pair goes before the
\* first pair with fewer points.
\* A mutant of the descending sort: a pair goes before the pairs with the same
\* points (not stable).
RECURSIVE InsertByPointsBeforeEqual(_, _)
InsertByPointsBeforeEqual(sorted, pair) ==
    IF sorted = <<>> THEN <<pair>>
    ELSE IF Head(sorted)[1] <= pair[1] THEN <<pair>> \o sorted
    ELSE <<Head(sorted)>> \o InsertByPointsBeforeEqual(Tail(sorted), pair)

RECURSIVE InsertByPoints(_, _)
InsertByPoints(sorted, pair) ==
    IF sorted = <<>> THEN <<pair>>
    ELSE IF Head(sorted)[1] < pair[1] THEN <<pair>> \o sorted
    ELSE <<Head(sorted)>> \o InsertByPoints(Tail(sorted), pair)

RECURSIVE SortedByPoints(_)
SortedByPoints(pairs) ==
    IF pairs = <<>> THEN <<>>
    ELSE InsertByPoints(SortedByPoints(SubSeq(pairs, 1, Len(pairs) - 1)),
                        pairs[Len(pairs)])

\* A mutant of the slice: the whole list.
SliceAll(s, n) == s

\* s[:n]
Slice(s, n) ==
    IF n >= 0 THEN SubSeq(s, 1, IF n < Len(s) THEN n ELSE Len(s))
    ELSE SubSeq(s, 1, IF Len(s) + n > 0 THEN Len(s) + n ELSE 0)

\* A mutant of the accumulation: only positive points are added.
MapAddPositive(f, key, points) ==
    MapPut(f, key, (IF key \in DOMAIN f THEN f[key] ELSE 0)
                     + (IF points > 0 THEN points ELSE 0))

\* track_points[key] += points, on a defaultdict(int)
MapAdd(f, key, points) ==
    MapPut(f, key, (IF key \in DOMAIN f THEN f[key] ELSE 0) + points)

\* -------------------------------------------------------- build_top_tracks

\* _load_submission_map (line 155), one row.
T_MapRow(Rows) ==
    /\ t_pc = "submission_map"
    /\ \E row \in RowsAt(submissions_csv, submissions_eof, t_i, Rows, MaxSubmissions) :
        /\ submissions_csv' = Known(submissions_csv, t_i, row)
        /\ t_submission_map' =
             MapPut(t_submission_map, <<row.round_id, row.uri>>, row.submitter_id)
    /\ t_i' = t_i + 1
    /\ UNCHANGED <<pvars, kvars, wvars, competitors, votes_file, submissions_eof, rounds_file,
                   t_pc, t_top_n, track_points, rounds_rows, round_names, tracks,
                   top_tracks, mvars, svars, hvars, avars>>

\* _load_submission_map returns at the end of submissions.csv.
T_MapEnd ==
    /\ t_pc = "submission_map"
    /\ AtEnd(submissions_csv, t_i)
    /\ submissions_eof' = TRUE
    /\ t_pc' = "votes"
    /\ t_i' = 1
    /\ UNCHANGED <<pvars, kvars, wvars, competitors, votes_file, submissions_csv, rounds_file,
                   t_top_n, t_submission_map, track_points, rounds_rows,
                   round_names, tracks, top_tracks, mvars, svars, hvars, avars>>

\* One row of votes.csv: track_points[(round_id, uri)] += points
T_VoteRow(Rows) ==
    /\ t_pc = "votes"
    /\ \E row \in RowsAt(votes_csv, votes_eof, t_i, Rows, MaxVotes) :
        LET points == ParseInt(row.points)
        IN  /\ votes_csv' = Known(votes_csv, t_i, row)
            /\ IF points.ok
               THEN /\ track_points' =
                         MapAdd(track_points, <<row.round_id, row.uri>>, points.value)
                    /\ t_pc' = t_pc
               ELSE /\ track_points' = track_points
                    /\ t_pc' = "error"
    /\ t_i' = t_i + 1
    /\ UNCHANGED <<pvars, kvars, wvars, competitors, votes_eof, submissions_file, rounds_file,
                   t_top_n, t_submission_map, rounds_rows, round_names, tracks,
                   top_tracks, mvars, svars, hvars, avars>>

\* The end of votes.csv.
T_VotesEnd ==
    /\ t_pc = "votes"
    /\ AtEnd(votes_csv, t_i)
    /\ votes_eof' = TRUE
    /\ t_pc' = "rounds"
    /\ t_i' = 1
    /\ UNCHANGED <<pvars, kvars, wvars, competitors, votes_csv, submissions_file, rounds_file,
                   t_top_n, t_submission_map, track_points, rounds_rows,
                   round_names, tracks, top_tracks, mvars, svars, hvars, avars>>

\* rounds_path.exists() is false: round_names stays empty.
T_NoRounds ==
    /\ t_pc = "rounds"
    /\ ~rounds_exists
    /\ t_pc' = "submissions"
    /\ UNCHANGED <<pvars, kvars, wvars, competitors, votes_file, submissions_file, rounds_file,
                   t_i, t_top_n, t_submission_map, track_points, rounds_rows,
                   round_names, tracks, top_tracks, mvars, svars, hvars, avars>>

\* load_rounds, one row: rows.append((row["ID"], row["Name"], row["Created"]))
T_RoundRow(Rows) ==
    /\ t_pc = "rounds"
    /\ rounds_exists
    /\ \E row \in RowsAt(rounds_csv, rounds_eof, t_i, Rows, MaxRounds) :
        /\ rounds_csv' = Known(rounds_csv, t_i, row)
        /\ rounds_rows' = Append(rounds_rows, <<row.id, row.name, row.created>>)
    /\ t_i' = t_i + 1
    /\ UNCHANGED <<pvars, kvars, wvars, competitors, votes_file, submissions_file, rounds_exists,
                   rounds_eof, t_pc, t_top_n, t_submission_map, track_points,
                   round_names, tracks, top_tracks, mvars, svars, hvars, avars>>

\* rows.sort(key=lambda r: r[2]) and the (id, name) pairs load_rounds returns
LoadRoundsResult(rows) ==
    LET done == SortedAscending([k \in 1..Len(rows) |-> <<rows[k][3], rows[k]>>])
    IN  [k \in 1..Len(done) |-> <<done[k][2][1], done[k][2][2]>>]

\* for rid, rname in ...: round_names[rid] = rname
RECURSIVE RoundNames(_)
RoundNames(pairs) ==
    IF pairs = <<>> THEN <<>>
    ELSE MapPut(RoundNames(SubSeq(pairs, 1, Len(pairs) - 1)),
                pairs[Len(pairs)][1], pairs[Len(pairs)][2])

\* The end of rounds.csv: load_rounds sorts and returns, round_names is filled.
T_RoundsEnd ==
    /\ t_pc = "rounds"
    /\ rounds_exists
    /\ AtEnd(rounds_csv, t_i)
    /\ rounds_eof' = TRUE
    /\ round_names' = RoundNames(LoadRoundsResult(rounds_rows))
    /\ t_pc' = "submissions"
    /\ t_i' = 1
    /\ UNCHANGED <<pvars, kvars, wvars, competitors, votes_file, submissions_file, rounds_exists,
                   rounds_csv, t_top_n, t_submission_map, track_points,
                   rounds_rows, tracks, top_tracks, mvars, svars, hvars, avars>>

\* A mutant of the submitter's name: the mapped name or nothing.
SubmitterNameOrEmpty(comps, submitter_id) == DictGet(comps, submitter_id, <<>>)

\* competitors.get(row["Submitter ID"], row["Submitter ID"])
SubmitterName(comps, submitter_id) == DictGet(comps, submitter_id, submitter_id)

\* A mutant of the round's name: the round id stands in for a missing name.
RoundNameOrId(rnames, round_id) ==
    IF round_id \in DOMAIN rnames THEN rnames[round_id] ELSE round_id

\* round_names.get(round_id, "Round")
RoundName(rnames, round_id) ==
    IF round_id \in DOMAIN rnames THEN rnames[round_id] ELSE "Round"

\* The dict appended to tracks for one submission row.
TrackOf(row, points, comps, rnames) ==
    [title |-> row.title, artist |-> row.artist,
     submitter_name |-> SubmitterName(comps, row.submitter_id),
     round_name |-> RoundName(rnames, row.round_id),
     points |-> IF <<row.round_id, row.uri>> \in DOMAIN points
                THEN points[<<row.round_id, row.uri>>] ELSE 0]

\* One row of submissions.csv (read again): tracks.append({...})
T_SubmissionRow ==
    /\ t_pc = "submissions"
    /\ \E row \in RowsAt(submissions_csv, submissions_eof, t_i, {}, MaxSubmissions) :
        tracks' = Append(tracks, TrackOf(row, track_points, competitors, round_names))
    /\ t_i' = t_i + 1
    /\ UNCHANGED <<pvars, kvars, wvars, competitors, votes_file, submissions_file, rounds_file,
                   t_pc, t_top_n, t_submission_map, track_points, rounds_rows,
                   round_names, top_tracks, mvars, svars, hvars, avars>>

\* tracks.sort(key=lambda t: t["points"], reverse=True)
TracksSorted(ts) ==
    LET done == SortedByPoints([k \in 1..Len(ts) |-> <<ts[k].points, ts[k]>>])
    IN  [k \in 1..Len(done) |-> done[k][2]]

\* tracks[:top_n]
TopTracksSlice(ts, n) == Slice(ts, n)

\* The end of submissions.csv: sort, return tracks[:top_n].
T_SubmissionsEnd ==
    /\ t_pc = "submissions"
    /\ AtEnd(submissions_csv, t_i)
    /\ tracks' = TracksSorted(tracks)
    /\ top_tracks' = TopTracksSlice(TracksSorted(tracks), t_top_n)
    /\ t_pc' = "done"
    /\ UNCHANGED <<pvars, kvars, wvars, competitors, votes_file, submissions_file, rounds_file,
                   t_i, t_top_n, t_submission_map, track_points, rounds_rows,
                   round_names, mvars, svars, hvars, avars>>

\* ------------------------------------------------------- build_top_artists

\* A mutant of the loop over votes.csv: track_points is one dict of the module,
\* shared with build_top_tracks, and not a dict of the call.
A_VoteRowSharedPoints(Rows) ==
    /\ a_pc = "votes"
    /\ \E row \in RowsAt(votes_csv, votes_eof, a_i, Rows, MaxVotes) :
        LET points == ParseInt(row.points)
        IN  /\ votes_csv' = Known(votes_csv, a_i, row)
            /\ IF points.ok
               THEN /\ a_track_points' =
                         MapAdd(IF a_i = 1 THEN track_points ELSE a_track_points,
                                <<row.round_id, row.uri>>, points.value)
                    /\ a_pc' = a_pc
               ELSE /\ a_track_points' = a_track_points
                    /\ a_pc' = "error"
    /\ a_i' = a_i + 1
    /\ UNCHANGED <<pvars, kvars, wvars, competitors, votes_eof, submissions_file, rounds_file,
                   a_top_n, artist_points, top_artists, mvars, svars, hvars, tvars>>

\* One row of votes.csv: track_points[(round_id, uri)] += points
A_VoteRow(Rows) ==
    /\ a_pc = "votes"
    /\ \E row \in RowsAt(votes_csv, votes_eof, a_i, Rows, MaxVotes) :
        LET points == ParseInt(row.points)
        IN  /\ votes_csv' = Known(votes_csv, a_i, row)
            /\ IF points.ok
               THEN /\ a_track_points' =
                         MapAdd(a_track_points, <<row.round_id, row.uri>>, points.value)
                    /\ a_pc' = a_pc
               ELSE /\ a_track_points' = a_track_points
                    /\ a_pc' = "error"
    /\ a_i' = a_i + 1
    /\ UNCHANGED <<pvars, kvars, wvars, competitors, votes_eof, submissions_file, rounds_file,
                   a_top_n, artist_points, top_artists, mvars, svars, hvars, tvars>>

\* The end of votes.csv.
A_VotesEnd ==
    /\ a_pc = "votes"
    /\ AtEnd(votes_csv, a_i)
    /\ votes_eof' = TRUE
    /\ a_pc' = "submissions"
    /\ a_i' = 1
    /\ UNCHANGED <<pvars, kvars, wvars, competitors, votes_csv, submissions_file, rounds_file,
                   a_top_n, a_track_points, artist_points, top_artists,
                   mvars, svars, hvars, tvars>>

\* A mutant of the artist totals: a track without points adds no artist.
ArtistAddIfPoints(items, artist, pts) ==
    LET known == \E k \in 1..Len(items) : items[k][1] = artist
        with  == IF known \/ pts = 0 THEN items ELSE Append(items, <<artist, 0>>)
    IN  [k \in 1..Len(with) |->
            IF with[k][1] = artist THEN <<artist, with[k][2] + pts>> ELSE with[k]]

\* artist_points[artist] += pts, on a defaultdict(int) kept in insertion order
ArtistAdd(items, artist, pts) ==
    LET known == \E k \in 1..Len(items) : items[k][1] = artist
        with  == IF known THEN items ELSE Append(items, <<artist, 0>>)
    IN  [k \in 1..Len(with) |->
            IF with[k][1] = artist THEN <<artist, with[k][2] + pts>> ELSE with[k]]

\* One row of submissions.csv.
A_SubmissionRow(Rows) ==
    /\ a_pc = "submissions"
    /\ \E row \in RowsAt(submissions_csv, submissions_eof, a_i, Rows, MaxSubmissions) :
        LET key == <<row.round_id, row.uri>>
            pts == IF key \in DOMAIN a_track_points THEN a_track_points[key] ELSE 0
        IN  /\ submissions_csv' = Known(submissions_csv, a_i, row)
            /\ artist_points' = ArtistAdd(artist_points, row.artist, pts)
    /\ a_i' = a_i + 1
    /\ UNCHANGED <<pvars, kvars, wvars, competitors, votes_file, submissions_eof, rounds_file,
                   a_pc, a_top_n, a_track_points, top_artists,
                   mvars, svars, hvars, tvars>>

\* sorted(artist_points.items(), key=lambda x: x[1], reverse=True)
ArtistsSorted(items) ==
    LET done == SortedByPoints([k \in 1..Len(items) |-> <<items[k][2], items[k]>>])
    IN  [k \in 1..Len(done) |-> done[k][2]]

\* [{"artist": a, "points": p} for a, p in sorted_artists[:top_n]]
TopArtistsSlice(items, n) ==
    LET cut == Slice(items, n)
    IN  [k \in 1..Len(cut) |-> [artist |-> cut[k][1], points |-> cut[k][2]]]

\* The end of submissions.csv: sort, return the first top_n.
A_SubmissionsEnd ==
    /\ a_pc = "submissions"
    /\ AtEnd(submissions_csv, a_i)
    /\ submissions_eof' = TRUE
    /\ top_artists' = TopArtistsSlice(ArtistsSorted(artist_points), a_top_n)
    /\ a_pc' = "done"
    /\ UNCHANGED <<pvars, kvars, wvars, competitors, votes_file, submissions_csv, rounds_file,
                   a_i, a_top_n, a_track_points, artist_points,
                   mvars, svars, hvars, tvars>>

\* main, lines 998-999: build_top_artists is called when build_top_tracks has
\* returned, with the same top_n.
CallTopArtists ==
    /\ t_pc = "done"
    /\ a_pc = "idle"
    /\ a_pc' = "votes"
    /\ a_top_n' = t_top_n
    /\ UNCHANGED <<pvars, kvars, wvars, competitors, votes_file, submissions_file, rounds_file,
                   a_i, a_track_points, artist_points, top_artists,
                   mvars, svars, hvars, tvars>>

\* --------------------------------------------------- build_point_histogram

\* A mutant of the counting: the count is set, not incremented.
CountSet(c, pts) == MapPut(c, pts, 1)

\* counts[pts] += 1, on a defaultdict(int)
CountAdd(c, pts) == MapPut(c, pts, (IF pts \in DOMAIN c THEN c[pts] ELSE 0) + 1)

\* counts.get(p, 0)
CountOf(c, p) == IF p \in DOMAIN c THEN c[p] ELSE 0

\* A mutant of the guard: no early return.
NoCountsNever(c) == FALSE

\* not counts
NoCounts(c) == DOMAIN c = {}

\* max(counts.keys()): ValueError (ok = FALSE) on an empty dict.
MaxKey(c) ==
    IF DOMAIN c = {} THEN [ok |-> FALSE, value |-> 0]
    ELSE [ok |-> TRUE, value |-> CHOOSE k \in DOMAIN c : \A l \in DOMAIN c : l <= k]

\* A mutant of the range: range(1, max_pts + 1).
HistogramPointsFromOne(max_pts) == [k \in 1..max_pts |-> k]

\* range(max_pts + 1): 0, 1, ..., max_pts; empty when max_pts is negative.
HistogramPoints(max_pts) == [k \in 1..(max_pts + 1) |-> k - 1]

\* [{"points": p, "count": counts.get(p, 0)} for p in range(max_pts + 1)]
HistogramEntries(c, max_pts) ==
    LET ps == HistogramPoints(max_pts)
    IN  [k \in 1..Len(ps) |-> [points |-> ps[k], count |-> CountOf(c, ps[k])]]

\* One row of votes.csv: counts[int(row["Points Assigned"])] += 1
P_VoteRow(Rows) ==
    /\ p_pc = "votes"
    /\ \E row \in RowsAt(votes_csv, votes_eof, p_i, Rows, MaxHistVotes) :
        LET pts == ParseInt(row.points)
        IN  /\ votes_csv' = Known(votes_csv, p_i, row)
            /\ IF pts.ok
               THEN /\ counts' = CountAdd(counts, pts.value)
                    /\ p_pc' = p_pc
               ELSE /\ counts' = counts
                    /\ p_pc' = "error"
    /\ p_i' = p_i + 1
    /\ UNCHANGED <<kvars, wvars, competitors, votes_eof, submissions_file, rounds_file,
                   histogram, mvars, svars, hvars, tvars, avars>>

\* The end of votes.csv: [] without counts, else the entries 0..max.
P_VotesEnd ==
    /\ p_pc = "votes"
    /\ AtEnd(votes_csv, p_i)
    /\ votes_eof' = TRUE
    /\ IF NoCounts(counts)
       THEN histogram' = <<>> /\ p_pc' = "done"
       ELSE LET max_pts == MaxKey(counts)
            IN  IF max_pts.ok
                THEN /\ histogram' = HistogramEntries(counts, max_pts.value)
                     /\ p_pc' = "done"
                ELSE histogram' = histogram /\ p_pc' = "error"
    /\ UNCHANGED <<kvars, wvars, competitors, votes_csv, submissions_file, rounds_file,
                   p_i, counts, mvars, svars, hvars, tvars, avars>>

\* ----------------------------------------------------------- _name_sort_key

\* The code points of the names: "A", "a", " ", U+2600, and the capital and
\* the small sigma.
NameAlphabet == {65, 97, 32, 9728, 931, 963}

\* The names of at most MaxNameLen code points.
SortKeyNames == UNION {[1..n -> NameAlphabet] : n \in 0..MaxNameLen}

\* Two code points that are the same letter: equal, or the capital and the
\* small form of a Basic Latin letter, or of the sigma.
SameLetter(c, d) ==
    \/ c = d
    \/ c \in 65..90 /\ d = c + 32
    \/ d \in 65..90 /\ c = d + 32
    \/ {c, d} = {931, 963}

\* The names that differ from name in letter case at most.
CaseVariants(name) ==
    {other \in [1..Len(name) -> NameAlphabet] :
        \A i \in 1..Len(name) : SameLetter(other[i], name[i])}

\* _name_sort_key(name) and _name_sort_key(other), for a name and any name
\* that differs from it in letter case at most.
K_SortKey ==
    /\ k_pc = "start"
    /\ k_key' = NameSortKey(k_name)
    /\ \E other \in CaseVariants(k_name) :
        /\ k_other' = other
        /\ k_other_key' = NameSortKey(other)
    /\ k_pc' = "keyed"
    /\ UNCHANGED <<pvars, wvars, competitors, votes_file, submissions_file, rounds_file,
                   k_name, k_key2, mvars, svars, hvars, tvars, avars>>

\* _name_sort_key(_name_sort_key(name))
K_SortKeyAgain ==
    /\ k_pc = "keyed"
    /\ k_key2' = NameSortKey(k_key)
    /\ k_pc' = "done"
    /\ UNCHANGED <<pvars, wvars, competitors, votes_file, submissions_file, rounds_file,
                   k_name, k_key, k_other, k_other_key,
                   mvars, svars, hvars, tvars, avars>>

\* ------------------------------------------------ the aggregators, each alone

\* What each aggregator returns when it runs alone on the files: its loop
\* body applied to the rows in file order.

\* load_voter_stats: stats_map after the first n rows of votes.csv.
RECURSIVE StatsMapOf(_, _, _)
StatsMapOf(votes, comps, n) ==
    IF n = 0 THEN <<>>
    ELSE StatsAfterVote(StatsMapOf(votes, comps, n - 1), comps,
                        votes[n].voter_id, ParseInt(votes[n].points).value)

\* _load_submission_map: the dict after the first n rows of submissions.csv.
RECURSIVE SubmissionMapOf(_, _)
SubmissionMapOf(subs, n) ==
    IF n = 0 THEN <<>>
    ELSE MapPut(SubmissionMapOf(subs, n - 1),
                <<subs[n].round_id, subs[n].uri>>, subs[n].submitter_id)

\* {cid: idx for idx, cid in enumerate(competitor_ids)}
IndexFor(ids) ==
    [cid \in {ids[k] : k \in 1..Len(ids)} |-> CHOOSE k \in 1..Len(ids) : ids[k] = cid]

\* build_vote_matrix: the matrix after the first n rows of votes.csv.
RECURSIVE MatrixOf(_, _, _, _)
MatrixOf(votes, subs, comps, n) ==
    IF n = 0
    THEN LET size == Len(comps)
         IN  [g \in 1..size |-> [r \in 1..size |-> 0]]
    ELSE MatrixAfterVote(MatrixOf(votes, subs, comps, n - 1),
                         SubmissionMapOf(subs, Len(subs)),
                         IndexFor(CompetitorOrder(comps)),
                         votes[n].voter_id, votes[n].round_id, votes[n].uri,
                         ParseInt(votes[n].points).value)

\* build_vote_matrix: names
NamesOf(comps) ==
    LET ids == CompetitorOrder(comps)
    IN  [k \in 1..Len(ids) |-> DictAt(comps, ids[k])]

\* build_top_tracks, build_top_artists: track_points after the first n rows of
\* votes.csv.
RECURSIVE TrackPointsOf(_, _)
TrackPointsOf(votes, n) ==
    IF n = 0 THEN <<>>
    ELSE MapAdd(TrackPointsOf(votes, n - 1),
                <<votes[n].round_id, votes[n].uri>>, ParseInt(votes[n].points).value)

\* build_top_tracks without a rounds.csv: what it returns.
TopTracksOf(votes, subs, comps, top_n) ==
    LET points == TrackPointsOf(votes, Len(votes))
        ts     == [k \in 1..Len(subs) |-> TrackOf(subs[k], points, comps, <<>>)]
    IN  TopTracksSlice(TracksSorted(ts), top_n)

\* build_top_artists: artist_points after the first n rows of submissions.csv.
RECURSIVE ArtistPointsOf(_, _, _)
ArtistPointsOf(points, subs, n) ==
    IF n = 0 THEN <<>>
    ELSE LET key == <<subs[n].round_id, subs[n].uri>>
         IN  ArtistAdd(ArtistPointsOf(points, subs, n - 1), subs[n].artist,
                       IF key \in DOMAIN points THEN points[key] ELSE 0)

\* build_top_artists: what it returns.
TopArtistsOf(votes, subs, top_n) ==
    TopArtistsSlice(
        ArtistsSorted(ArtistPointsOf(TrackPointsOf(votes, Len(votes)), subs, Len(subs))),
        top_n)

\* build_point_histogram: counts after the first n rows of votes.csv.
RECURSIVE CountsOf(_, _)
CountsOf(votes, n) ==
    IF n = 0 THEN <<>>
    ELSE CountAdd(CountsOf(votes, n - 1), ParseInt(votes[n].points).value)

\* build_point_histogram: what it returns (the maximum is not negative).
HistogramOf(votes) ==
    LET c == CountsOf(votes, Len(votes))
    IN  IF NoCounts(c) THEN <<>> ELSE HistogramEntries(c, MaxKey(c).value)

\* --------------------------------------------------------------------- main

\* top_n=3 in main's calls of build_top_tracks and build_top_artists
MainTopN == 3

\* The input files of main, lines 990-992, that have to exist.
InputFiles == {"competitors.csv", "votes.csv", "submissions.csv"}

\* competitors[row["ID"]] = row["Name"]: a new key goes to the end, a known key
\* keeps its place.
DictPut(d, key, value) ==
    IF DictHas(d, key)
    THEN [k \in 1..Len(d) |-> IF d[k][1] = key THEN <<key, value>> ELSE d[k]]
    ELSE Append(d, <<key, value>>)

\* load_competitors: the dict after the first n rows of competitors.csv.
RECURSIVE LoadCompetitors(_, _)
LoadCompetitors(rows, n) ==
    IF n = 0 THEN <<>>
    ELSE DictPut(LoadCompetitors(rows, n - 1), rows[n].id, rows[n].name)

\* main, line 995: load_competitors returns the dict, or path.open raises
\* because there is no competitors.csv.
Main_LoadCompetitors ==
    /\ main_pc = "load_competitors"
    /\ IF "competitors.csv" \in missing
       THEN /\ main_pc' = "error"
            /\ competitors' = competitors
       ELSE /\ main_pc' = "running"
            /\ competitors' = LoadCompetitors(competitors_csv, Len(competitors_csv))
    /\ UNCHANGED <<missing, competitors_csv, index_html, votes_file, submissions_file,
                   rounds_file, mvars, svars, hvars, tvars, avars, pvars, kvars>>

\* main, line 996: load_voter_stats is called when load_competitors has
\* returned; its path.open raises when there is no votes.csv.
CallLoadVoterStats ==
    /\ main_pc = "running"
    /\ s_pc = "idle"
    /\ s_pc' = IF "votes.csv" \in missing THEN "error" ELSE "votes"
    /\ UNCHANGED <<pvars, kvars, wvars, competitors, votes_file, submissions_file,
                   rounds_file, s_i, stats_map, voter_stats, mvars, hvars, tvars,
                   avars>>

\* main, lines 996-997: build_vote_matrix is called when load_voter_stats has
\* returned; the path.open of _load_submission_map raises when there is no
\* submissions.csv.
CallVoteMatrix ==
    /\ s_pc = "done"
    /\ m_pc = "idle"
    /\ m_pc' = IF "submissions.csv" \in missing THEN "error" ELSE "submissions"
    /\ UNCHANGED <<pvars, kvars, wvars, competitors, votes_file, submissions_file,
                   rounds_file, m_i, submission_map, competitor_ids, names,
                   index_for, matrix, svars, hvars, tvars, avars>>

\* main, lines 997-998: build_top_tracks is called when build_vote_matrix has
\* returned.
CallTopTracks ==
    /\ m_pc = "done"
    /\ t_pc = "idle"
    /\ t_pc' = "submission_map"
    /\ t_top_n' = MainTopN
    /\ UNCHANGED <<pvars, kvars, wvars, competitors, votes_file, submissions_file,
                   rounds_file, t_i, t_submission_map, track_points, rounds_rows,
                   round_names, tracks, top_tracks, mvars, svars, hvars, avars>>

\* main, lines 999-1000: build_point_histogram is called when
\* build_top_artists has returned.
CallPointHistogram ==
    /\ a_pc = "done"
    /\ p_pc = "idle"
    /\ p_pc' = "votes"
    /\ UNCHANGED <<kvars, wvars, competitors, votes_file, submissions_file, rounds_file,
                   p_i, counts, histogram, mvars, svars, hvars, tvars, avars>>

\* A mutant of the call of build_html: it does not wait for the other
\* aggregators, load_voter_stats has the voter stats.
CallBuildHtmlEarly ==
    /\ s_pc = "done"
    /\ h_pc = "idle"
    /\ h_pc' = "start"
    /\ voters' = voter_stats
    /\ UNCHANGED <<pvars, kvars, wvars, competitors, votes_file, submissions_file,
                   rounds_file, voters_sorted, chart_labels, chart_values,
                   table_rows, mvars, svars, tvars, avars>>

\* main, lines 1000-1002: build_html is called when build_point_histogram has
\* returned, with the voter stats.
CallBuildHtml ==
    /\ p_pc = "done"
    /\ h_pc = "idle"
    /\ h_pc' = "start"
    /\ voters' = voter_stats
    /\ UNCHANGED <<pvars, kvars, wvars, competitors, votes_file, submissions_file,
                   rounds_file, voters_sorted, chart_labels, chart_values,
                   table_rows, mvars, svars, tvars, avars>>

\* The html build_html returns: what it made of the voter stats, and the
\* other results it is given.
Html ==
    [chart_labels |-> chart_labels, chart_values |-> chart_values,
     table_rows |-> table_rows, matrix_names |-> names, matrix |-> matrix,
     top_tracks |-> top_tracks, top_artists |-> top_artists,
     point_histogram |-> histogram]

\* main, lines 1010-1012: output_path.write_text(html), when build_html has
\* returned; main returns.
Main_WriteText ==
    /\ main_pc = "running"
    /\ h_pc = "done"
    /\ index_html' = Append(index_html, Html)
    /\ main_pc' = "done"
    /\ UNCHANGED <<missing, competitors_csv, competitors, votes_file,
                   submissions_file, rounds_file, mvars, svars, hvars, tvars,
                   avars, pvars, kvars>>

\* A function main has called has raised.
Raised ==
    \/ s_pc = "error" \/ m_pc = "error" \/ t_pc = "error"
    \/ a_pc = "error" \/ p_pc = "error" \/ h_pc = "error"

\* main, lines 996-1009: main catches nothing; what a function raises ends it.
Main_Raise ==
    /\ main_pc = "running"
    /\ Raised
    /\ main_pc' = "error"
    /\ UNCHANGED <<missing, competitors_csv, index_html, competitors, votes_file,
                   submissions_file, rounds_file, mvars, svars, hvars, tvars,
                   avars, pvars, kvars>>

\* ---------------------------------------------------------- specifications

FilesUnread ==
    /\ votes_csv = <<>> /\ votes_eof = FALSE
    /\ submissions_csv = <<>> /\ submissions_eof = FALSE
    /\ rounds_csv = <<>> /\ rounds_eof = FALSE

\* The locals of a function at its call, but for where it is.
M_Locals ==
    /\ m_i = 1 /\ submission_map = <<>> /\ competitor_ids = <<>>
    /\ names = <<>> /\ index_for = <<>> /\ matrix = <<>>
S_Locals == s_i = 1 /\ stats_map = <<>> /\ voter_stats = <<>>
H_Locals ==
    /\ voters_sorted = <<>> /\ chart_labels = <<>>
    /\ chart_values = <<>> /\ table_rows = <<>>
T_Locals ==
    /\ t_i = 1 /\ t_submission_map = <<>> /\ track_points = <<>>
    /\ rounds_rows = <<>> /\ round_names = <<>> /\ tracks = <<>> /\ top_tracks = <<>>
A_Locals ==
    /\ a_i = 1 /\ a_track_points = <<>> /\ artist_points = <<>> /\ top_artists = <<>>
P_Locals == p_i = 1 /\ counts = <<>> /\ histogram = <<>>

\* A function that is not called.
M_Idle == m_pc = "idle" /\ M_Locals
S_Idle == s_pc = "idle" /\ S_Locals
H_Idle == h_pc = "idle" /\ voters = <<>> /\ H_Locals
T_Idle == t_pc = "idle" /\ t_top_n = 0 /\ T_Locals
A_Idle == a_pc = "idle" /\ a_top_n = 0 /\ A_Locals
P_Idle == p_pc = "idle" /\ P_Locals
K_Idle ==
    /\ k_pc = "idle" /\ k_name = <<>> /\ k_key = <<>>
    /\ k_other = <<>> /\ k_other_key = <<>> /\ k_key2 = <<>>

\* main is not running: the functions are called on their own.
Main_Idle ==
    /\ main_pc = "idle" /\ missing = {}
    /\ competitors_csv = <<>> /\ index_html = <<>>

\* The ids that vote and submit: two competitors and the unknown id.
SomeIds == {Id_c1, Id_c2, Id_x9}

\* The competitors c1 "Zoe" and c2 "amy": either, both in either order, none.
ZoeAndAmy ==
    {d \in Dicts({Id_c1, Id_c2}, {Name_Zoe, Name_amy}, 2) :
        \A k \in 1..Len(d) : (d[k][1] = Id_c1) <=> (d[k][2] = Name_Zoe)}

TwoRounds == {<<"r1", "t1">>, <<"r2", "t1">>}

MatrixVoteRows == VoteRows(SomeIds, TwoRounds, FewPointTexts)
\* Submissions of round r1 by c1, c2 and the unknown id, and of round r2 by c2.
MatrixSubmissionRows ==
    {r \in SubmissionRows(SomeIds, TwoRounds, {"Artist A"}) :
        r.round_id = "r1" \/ r.submitter_id = Id_c2}

\* build_vote_matrix on any votes and submissions of c1 "Zoe", c2 "amy" and
\* the unknown id.
InitMatrix ==
    /\ Main_Idle
    /\ competitors = <<<<Id_c1, Name_Zoe>>, <<Id_c2, Name_amy>>>>
    /\ FilesUnread /\ rounds_exists = FALSE
    /\ m_pc = "submissions" /\ M_Locals
    /\ S_Idle /\ H_Idle /\ T_Idle /\ A_Idle /\ P_Idle /\ K_Idle

NextMatrix ==
    \/ M_SubmissionRow(MatrixSubmissionRows)
    \/ M_SubmissionsEnd
    \/ M_Order
    \/ M_VoteRow(MatrixVoteRows)
    \/ M_VotesEnd

SpecMatrix == InitMatrix /\ [][NextMatrix]_vars

\* build_vote_matrix for up to three competitors with any of the display
\* names, on a few votes and submissions.
OrderVoteRows == VoteRows({Id_c1, Id_c2}, {<<"r1", "t1">>}, {<<50>>})
OrderSubmissionRows == SubmissionRows({Id_c1, Id_c2}, {<<"r1", "t1">>}, {"Artist A"})

InitOrder ==
    /\ Main_Idle
    /\ competitors \in Dicts({Id_c1, Id_c2, Id_c3},
                             {Name_Zoe, Name_Amy, Name_bob, Name_sun_amy},
                             MaxCompetitors)
    /\ FilesUnread /\ rounds_exists = FALSE
    /\ m_pc = "submissions" /\ M_Locals
    /\ S_Idle /\ H_Idle /\ T_Idle /\ A_Idle /\ P_Idle /\ K_Idle

NextOrder ==
    \/ M_SubmissionRow(OrderSubmissionRows)
    \/ M_SubmissionsEnd
    \/ M_Order
    \/ M_VoteRow(OrderVoteRows)
    \/ M_VotesEnd

SpecOrder == InitOrder /\ [][NextOrder]_vars

\* load_voter_stats on any votes.
InitStats ==
    /\ Main_Idle
    /\ competitors \in ZoeAndAmy
    /\ FilesUnread /\ rounds_exists = FALSE
    /\ s_pc = "votes" /\ S_Locals
    /\ M_Idle /\ H_Idle /\ T_Idle /\ A_Idle /\ P_Idle /\ K_Idle

StatsVoteRows == VoteRows(SomeIds, {<<"r1", "t1">>}, PointTexts)

NextStats ==
    \/ S_VoteRow(StatsVoteRows)
    \/ S_VotesEnd

SpecStats == InitStats /\ [][NextStats]_vars

\* The VoterStats records build_html is given: the k-th is voter k, with any
\* total (VoterStats(...) takes the fields as they are), and no votes, votes
\* none of which is positive, or two votes of which one or both are.
VoterIds == <<Id_c1, Id_c2, Id_c3, Id_x9>>
VoterNames == <<Name_Zoe, Name_amy, Name_bob, Id_x9>>
VoterLists ==
    UNION {[1..n -> {c \in [total_points : {-1, 0, 2, 4}, num_votes : 0..2,
                           num_positive_votes : 0..2] :
                        <<c.num_votes, c.num_positive_votes>>
                            \in {<<0, 0>>, <<1, 0>>, <<2, 1>>, <<2, 2>>}}] :
           n \in 0..MaxVoters}

InitHtml ==
    /\ Main_Idle
    /\ competitors = <<>>
    /\ FilesUnread /\ rounds_exists = FALSE
    /\ h_pc = "start" /\ H_Locals
    /\ \E given \in VoterLists :
        voters = [k \in 1..Len(given) |->
                    [voter_id |-> VoterIds[k], name |-> VoterNames[k],
                     total_points |-> given[k].total_points,
                     num_votes |-> given[k].num_votes,
                     num_positive_votes |-> given[k].num_positive_votes]]
    /\ M_Idle /\ S_Idle /\ T_Idle /\ A_Idle /\ P_Idle /\ K_Idle

NextHtml == H_Build

SpecHtml == InitHtml /\ [][NextHtml]_vars

\* rounds.csv rows.
RoundRows(Ids, Names, Createds) ==
    {[id |-> i, name |-> n, created |-> c] : i \in Ids, n \in Names, c \in Createds}

\* load_voter_stats and build_top_tracks, each called once and running in any
\* interleaving, for any competitors dict over c1 and c2; c1, c2 and the
\* unknown id vote and submit.
NamesVoteRows == VoteRows(SomeIds, {<<"r1", "t1">>}, {<<50>>})
NamesSubmissionRows == SubmissionRows(SomeIds, {<<"r1", "t1">>}, {"Artist A"})

InitNames ==
    /\ Main_Idle
    /\ competitors \in Dicts({Id_c1, Id_c2}, {Name_Zoe, Name_amy}, 2)
    /\ FilesUnread /\ rounds_exists = FALSE
    /\ s_pc = "votes" /\ S_Locals
    /\ t_pc = "submission_map" /\ t_top_n = MaxTopN /\ T_Locals
    /\ M_Idle /\ H_Idle /\ A_Idle /\ P_Idle /\ K_Idle

NextNames ==
    \/ S_VoteRow(NamesVoteRows)
    \/ S_VotesEnd
    \/ T_MapRow(NamesSubmissionRows)
    \/ T_MapEnd
    \/ T_VoteRow(NamesVoteRows)
    \/ T_VotesEnd
    \/ T_NoRounds
    \/ T_SubmissionRow
    \/ T_SubmissionsEnd

SpecNames == InitNames /\ [][NextNames]_vars

\* build_top_tracks and then build_top_artists, called one after the other
\* with the same top_n (as main does, with 3), for any top_n from 0 on;
\* there is no rounds.csv.
TopVoteRows == VoteRows({Id_c1}, TwoRounds, FewPointTexts)
TopSubmissionRows == SubmissionRows({Id_c1}, TwoRounds, {"Artist A", "artist a"})
InitTop ==
    /\ Main_Idle
    /\ competitors = <<<<Id_c1, Name_Zoe>>, <<Id_c2, Name_amy>>>>
    /\ FilesUnread /\ rounds_exists = FALSE
    /\ t_pc = "submission_map" /\ t_top_n \in 0..MaxTopN /\ T_Locals
    /\ A_Idle /\ P_Idle /\ K_Idle
    /\ M_Idle /\ S_Idle /\ H_Idle

NextTop ==
    \/ T_MapRow(TopSubmissionRows)
    \/ T_MapEnd
    \/ T_VoteRow(TopVoteRows)
    \/ T_VotesEnd
    \/ T_NoRounds
    \/ T_SubmissionRow
    \/ T_SubmissionsEnd
    \/ CallTopArtists
    \/ A_VoteRow(TopVoteRows)
    \/ A_VotesEnd
    \/ A_SubmissionRow(TopSubmissionRows)
    \/ A_SubmissionsEnd

SpecTop == InitTop /\ [][NextTop]_vars

\* build_top_tracks with or without a rounds.csv: the rounds r1 and r9, each
\* with either name and either creation date ("1", "2"), any number of times;
\* submissions in round r1 (track t1) and round r2 (track t2).
RoundsRoundRows == RoundRows({"r1", "r9"}, {"Week 1", "Week 2"}, {<<49>>, <<50>>})
RoundsVoteRows == VoteRows({Id_c1}, {<<"r1", "t1">>}, {<<50>>})
RoundsSubmissionRows ==
    SubmissionRows({Id_c1}, {<<"r1", "t1">>, <<"r2", "t2">>}, {"Artist A"})

InitRounds ==
    /\ Main_Idle
    /\ competitors = <<<<Id_c1, Name_Zoe>>, <<Id_c2, Name_amy>>>>
    /\ FilesUnread /\ rounds_exists \in BOOLEAN
    /\ t_pc = "submission_map" /\ t_top_n = MaxTopN /\ T_Locals
    /\ M_Idle /\ S_Idle /\ H_Idle /\ A_Idle /\ P_Idle /\ K_Idle

NextRounds ==
    \/ T_MapRow(RoundsSubmissionRows)
    \/ T_MapEnd
    \/ T_VoteRow(RoundsVoteRows)
    \/ T_VotesEnd
    \/ T_NoRounds
    \/ T_RoundRow(RoundsRoundRows)
    \/ T_RoundsEnd
    \/ T_SubmissionRow
    \/ T_SubmissionsEnd

SpecRounds == InitRounds /\ [][NextRounds]_vars

\* build_point_histogram on any votes of -2, -1, 0, 1 or 2 points.
HistPointTexts == {<<45, 50>>, <<45, 49>>, <<48>>, <<49>>, <<50>>}
HistVoteRows == VoteRows({Id_c1}, {<<"r1", "t1">>}, HistPointTexts)

InitHistogram ==
    /\ Main_Idle
    /\ competitors = <<>>
    /\ FilesUnread /\ rounds_exists = FALSE
    /\ p_pc = "votes" /\ P_Locals
    /\ M_Idle /\ S_Idle /\ H_Idle /\ T_Idle /\ A_Idle /\ K_Idle

NextHistogram ==
    \/ P_VoteRow(HistVoteRows)
    \/ P_VotesEnd

SpecHistogram == InitHistogram /\ [][NextHistogram]_vars

\* The aggregators called one after the other on the same files, as main
\* calls them, with no or two competitors, any number of votes by c1 for the
\* track of c2 and any number of submissions of it; there is no rounds.csv.
AggVoteRows == VoteRows({Id_c1}, {<<"r1", "t1">>}, {<<50>>})
AggSubmissionRows == SubmissionRows({Id_c2}, {<<"r1", "t1">>}, {"Artist A"})

InitAggregators ==
    /\ Main_Idle
    /\ competitors \in {<<>>, <<<<Id_c1, Name_Zoe>>, <<Id_c2, Name_amy>>>>}
    /\ FilesUnread /\ rounds_exists = FALSE
    /\ s_pc = "votes" /\ S_Locals
    /\ M_Idle /\ H_Idle /\ T_Idle /\ A_Idle /\ P_Idle /\ K_Idle

NextAggregators ==
    \/ S_VoteRow(AggVoteRows)
    \/ S_VotesEnd
    \/ CallVoteMatrix
    \/ M_SubmissionRow(AggSubmissionRows)
    \/ M_SubmissionsEnd
    \/ M_Order
    \/ M_VoteRow(AggVoteRows)
    \/ M_VotesEnd
    \/ CallTopTracks
    \/ T_MapRow(AggSubmissionRows)
    \/ T_MapEnd
    \/ T_VoteRow(AggVoteRows)
    \/ T_VotesEnd
    \/ T_NoRounds
    \/ T_SubmissionRow
    \/ T_SubmissionsEnd
    \/ CallTopArtists
    \/ A_VoteRow(AggVoteRows)
    \/ A_VotesEnd
    \/ A_SubmissionRow(AggSubmissionRows)
    \/ A_SubmissionsEnd
    \/ CallPointHistogram
    \/ P_VoteRow(AggVoteRows)
    \/ P_VotesEnd

SpecAggregators == InitAggregators /\ [][NextAggregators]_vars

\* _name_sort_key on any name of letters, blanks and emoji.
InitSortKey ==
    /\ Main_Idle
    /\ competitors = <<>>
    /\ FilesUnread /\ rounds_exists = FALSE
    /\ k_pc = "start" /\ k_name \in SortKeyNames /\ k_key = <<>>
    /\ k_other = <<>> /\ k_other_key = <<>> /\ k_key2 = <<>>
    /\ M_Idle /\ S_Idle /\ H_Idle /\ T_Idle /\ A_Idle /\ P_Idle

NextSortKey ==
    \/ K_SortKey
    \/ K_SortKeyAgain

SpecSortKey == InitSortKey /\ [][NextSortKey]_vars

\* build_vote_matrix on files with malformed rows: votes by c1 or c2 for the
\* track of round r1 with the points "2", "x" or "" (an empty field),
\* submissions of the track by c2 or with an empty "Submitter ID" field.
MalformedVoteRows ==
    VoteRows({Id_c1, Id_c2}, {<<"r1", "t1">>}, {<<50>>, <<120>>, <<>>})
MalformedSubmissionRows ==
    SubmissionRows({Id_c2, <<>>}, {<<"r1", "t1">>}, {"Artist A"})

InitMalformed ==
    /\ Main_Idle
    /\ competitors = <<<<Id_c1, Name_Zoe>>, <<Id_c2, Name_amy>>>>
    /\ FilesUnread /\ rounds_exists = FALSE
    /\ m_pc = "submissions" /\ M_Locals
    /\ S_Idle /\ H_Idle /\ T_Idle /\ A_Idle /\ P_Idle /\ K_Idle

NextMalformed ==
    \/ M_SubmissionRow(MalformedSubmissionRows)
    \/ M_SubmissionsEnd
    \/ M_Order
    \/ M_VoteRow(MalformedVoteRows)
    \/ M_VotesEnd

SpecMalformed == InitMalformed /\ [][NextMalformed]_vars

\* build_vote_matrix, then build_top_tracks, on submissions of c1 and c2 that
\* may share their (round, uri), and votes of c1 and c2 for the track of r1.
DupVoteRows == VoteRows({Id_c1, Id_c2}, {<<"r1", "t1">>}, FewPointTexts)
DupSubmissionRows == SubmissionRows({Id_c1, Id_c2}, TwoRounds, {"Artist A"})

InitDuplicates ==
    /\ Main_Idle
    /\ competitors = <<<<Id_c1, Name_Zoe>>, <<Id_c2, Name_amy>>>>
    /\ FilesUnread /\ rounds_exists = FALSE
    /\ m_pc = "submissions" /\ M_Locals
    /\ S_Idle /\ H_Idle /\ T_Idle /\ A_Idle /\ P_Idle /\ K_Idle

NextDuplicates ==
    \/ M_SubmissionRow(DupSubmissionRows)
    \/ M_SubmissionsEnd
    \/ M_Order
    \/ M_VoteRow(DupVoteRows)
    \/ M_VotesEnd
    \/ CallTopTracks
    \/ T_MapRow(DupSubmissionRows)
    \/ T_MapEnd
    \/ T_VoteRow(DupVoteRows)
    \/ T_VotesEnd
    \/ T_NoRounds
    \/ T_SubmissionRow
    \/ T_SubmissionsEnd

SpecDuplicates == InitDuplicates /\ [][NextDuplicates]_vars

\* The five aggregators of main, lines 996-1000, all called on the same files
\* and the same competitors, their steps in any order.
ConcurrentVoteRows == VoteRows({Id_c1}, {<<"r1", "t1">>}, {<<50>>})
ConcurrentSubmissionRows == SubmissionRows({Id_c2}, {<<"r1", "t1">>}, {"Artist A"})

InitConcurrent ==
    /\ Main_Idle
    /\ competitors = <<<<Id_c1, Name_Zoe>>, <<Id_c2, Name_amy>>>>
    /\ FilesUnread /\ rounds_exists = FALSE
    /\ s_pc = "votes" /\ S_Locals
    /\ m_pc = "submissions" /\ M_Locals
    /\ t_pc = "submission_map" /\ t_top_n = MainTopN /\ T_Locals
    /\ a_pc = "votes" /\ a_top_n = MainTopN /\ A_Locals
    /\ p_pc = "votes" /\ P_Locals
    /\ H_Idle /\ K_Idle

NextConcurrent ==
    \/ S_VoteRow(ConcurrentVoteRows)
    \/ S_VotesEnd
    \/ M_SubmissionRow(ConcurrentSubmissionRows)
    \/ M_SubmissionsEnd
    \/ M_Order
    \/ M_VoteRow(ConcurrentVoteRows)
    \/ M_VotesEnd
    \/ T_MapRow(ConcurrentSubmissionRows)
    \/ T_MapEnd
    \/ T_VoteRow(ConcurrentVoteRows)
    \/ T_VotesEnd
    \/ T_NoRounds
    \/ T_SubmissionRow
    \/ T_SubmissionsEnd
    \/ A_VoteRow(ConcurrentVoteRows)
    \/ A_VotesEnd
    \/ A_SubmissionRow(ConcurrentSubmissionRows)
    \/ A_SubmissionsEnd
    \/ P_VoteRow(ConcurrentVoteRows)
    \/ P_VotesEnd

SpecConcurrent == InitConcurrent /\ [][NextConcurrent]_vars

\* main: any of the input files may be missing, competitors.csv has no row or
\* two rows (of one id or of two), a vote may have points that are no integer.
MainCompetitorFiles ==
    {<<>>,
     <<[id |-> Id_c1, name |-> Name_Zoe], [id |-> Id_c2, name |-> Name_amy]>>,
     <<[id |-> Id_c1, name |-> Name_Zoe], [id |-> Id_c1, name |-> Name_amy]>>}
MainVoteRows == VoteRows({Id_c1}, {<<"r1", "t1">>}, {<<50>>, <<120>>})
MainSubmissionRows == SubmissionRows({Id_c2}, {<<"r1", "t1">>}, {"Artist A"})

InitMain ==
    /\ main_pc = "load_competitors"
    /\ missing \in SUBSET InputFiles
    /\ competitors_csv \in MainCompetitorFiles
    /\ index_html = <<>>
    /\ competitors = <<>>
    /\ FilesUnread /\ rounds_exists = FALSE
    /\ M_Idle /\ S_Idle /\ H_Idle /\ T_Idle /\ A_Idle /\ P_Idle /\ K_Idle

NextMain ==
    \/ Main_LoadCompetitors
    \/ CallLoadVoterStats
    \/ S_VoteRow(MainVoteRows)
    \/ S_VotesEnd
    \/ CallVoteMatrix
    \/ M_SubmissionRow(MainSubmissionRows)
    \/ M_SubmissionsEnd
    \/ M_Order
    \/ M_VoteRow(MainVoteRows)
    \/ M_VotesEnd
    \/ CallTopTracks
    \/ T_MapRow(MainSubmissionRows)
    \/ T_MapEnd
    \/ T_VoteRow(MainVoteRows)
    \/ T_VotesEnd
    \/ T_NoRounds
    \/ T_SubmissionRow
    \/ T_SubmissionsEnd
    \/ CallTopArtists
    \/ A_VoteRow(MainVoteRows)
    \/ A_VotesEnd
    \/ A_SubmissionRow(MainSubmissionRows)
    \/ A_SubmissionsEnd
    \/ CallPointHistogram
    \/ P_VoteRow(MainVoteRows)
    \/ P_VotesEnd
    \/ CallBuildHtml
    \/ H_Build
    \/ Main_WriteText
    \/ Main_Raise

\* main catches nothing and nothing runs beside it: what a function has raised
\* does leave main.
SpecMain == InitMain /\ [][NextMain]_vars /\ WF_vars(Main_Raise)

\* ------------------------------------------------------------------ claims

\* pointsAssigned of a vote row
PointsOf(row) == ParseInt(row.points).value

\* The submitter of the track a vote row names: the submitter of the
\* submissions.csv row with that (round, uri) ({} when there is none).  The
\* key is unique in the data model; of several rows with one key the last
\* decides.
SubmitterOfTrack(round_id, uri) ==
    LET rows == {k \in 1..Len(submissions_csv) :
                    /\ submissions_csv[k].round_id = round_id
                    /\ submissions_csv[k].uri = uri}
    IN  IF rows = {} THEN {}
        ELSE {submissions_csv[CHOOSE k \in rows : \A l \in rows : l <= k].submitter_id}

\* A vote row counts for the cell (giver, receiver).
CountsFor(row, giver, receiver) ==
    /\ PointsOf(row) > 0
    /\ row.voter_id = giver
    /\ SubmitterOfTrack(row.round_id, row.uri) = {receiver}
    /\ row.voter_id # receiver

\* The sum of the points of the first n vote rows that count for the cell.
CellSum(n, giver, receiver) ==
    SeqSum([k \in 1..n |-> IF CountsFor(votes_csv[k], giver, receiver)
                           THEN PointsOf(votes_csv[k]) ELSE 0])

\* C1: the matrix build_vote_matrix returns holds, in every cell [i][j], the
\* sum of pointsAssigned over exactly the votes with positive points that the
\* competitor at position i cast for a track whose submission's submitter is
\* the competitor at position j, voter and submitter being different.
C1_CellIsSumOfCountedVotes ==
    m_pc = "done" =>
        \A i, j \in 1..Len(competitor_ids) :
            matrix[i][j] = CellSum(Len(votes_csv), competitor_ids[i], competitor_ids[j])

\* Two counted votes of 2 points were added up in one cell, and the cell of
\* the opposite direction is empty.
C1_Witness ==
    /\ m_pc = "done"
    /\ \E i, j \in 1..Len(competitor_ids) :
        i # j /\ matrix[i][j] = 4 /\ matrix[j][i] = 0

\* C2: once the matrix exists, and after any number of vote rows, it is
\* square with one row and one column per competitor, names has that length,
\* and the diagonal is 0.
C2_SquareZeroDiagonal ==
    m_pc \in {"votes", "done"} =>
        /\ Len(names) = Len(competitors)
        /\ Len(matrix) = Len(competitors)
        /\ \A i \in 1..Len(matrix) :
            /\ Len(matrix[i]) = Len(competitors)
            /\ matrix[i][i] = 0

\* A competitor's positive vote for the own track has been processed, in a
\* matrix of two competitors.
C2_Witness ==
    /\ m_pc \in {"votes", "done"}
    /\ Len(matrix) = 2
    /\ \E k \in 1..(m_i - 1) :
        /\ k <= Len(votes_csv)
        /\ PointsOf(votes_csv[k]) > 0
        /\ DictHas(competitors, votes_csv[k].voter_id)
        /\ SubmitterOfTrack(votes_csv[k].round_id, votes_csv[k].uri)
             = {votes_csv[k].voter_id}

\* This step processes vote row m_i of votes.csv.
ProcessesVote == m_pc = "votes" /\ m_i' = m_i + 1

\* C3: processing a vote with zero or negative points leaves every cell of
\* the matrix as it was, whoever voted and whatever the track and round.
C3_NonPositiveVoteChangesNothing ==
    [][(ProcessesVote /\ PointsOf(votes_csv'[m_i]) <= 0) => matrix' = matrix]_vars

\* A vote with negative points by a competitor for another competitor's
\* track has been processed after a vote that put points into the matrix.
C3_Witness ==
    /\ m_pc \in {"votes", "done"}
    /\ m_i = 3
    /\ \E i, j \in 1..Len(matrix) : matrix[i][j] > 0
    /\ PointsOf(votes_csv[2]) < 0
    /\ DictHas(competitors, votes_csv[2].voter_id)
    /\ \E s \in SubmitterOfTrack(votes_csv[2].round_id, votes_csv[2].uri) :
        s # votes_csv[2].voter_id /\ DictHas(competitors, s)

\* A vote row that cannot be placed: no submission has its (round, uri), or
\* its voter or the submitter is no key of competitors.
Unplaceable(row) ==
    \/ SubmitterOfTrack(row.round_id, row.uri) = {}
    \/ ~DictHas(competitors, row.voter_id)
    \/ \E s \in SubmitterOfTrack(row.round_id, row.uri) : ~DictHas(competitors, s)

\* C4: an orphan vote, and a vote whose voter or submitter is not a key of
\* competitors, is skipped: no error is raised, the loop goes on and every
\* cell of the matrix is as it was.
C4_UnplaceableVoteIsSkipped ==
    [][(ProcessesVote /\ Unplaceable(votes_csv'[m_i]))
          => (matrix' = matrix /\ m_pc' = "votes")]_vars

\* Both competitors are known and one has a submission; a positive orphan
\* vote for the same uri in the other round, and a positive vote by the
\* unknown id for the submitted track, have been processed.
C4_Witness ==
    /\ m_pc = "done"
    /\ Len(competitors) = 2
    /\ Len(votes_csv) = 2
    /\ \A k \in 1..2 : PointsOf(votes_csv[k]) > 0
    /\ SubmitterOfTrack(votes_csv[1].round_id, votes_csv[1].uri) = {}
    /\ \E r \in Rounds : SubmitterOfTrack(r, votes_csv[1].uri) # {}
    /\ DictHas(competitors, votes_csv[1].voter_id)
    /\ ~DictHas(competitors, votes_csv[2].voter_id)
    /\ \E s \in SubmitterOfTrack(votes_csv[2].round_id, votes_csv[2].uri) :
        DictHas(competitors, s)

\* C5: the competitors are in ascending order of the sort key of their
\* display names; that one order is the order of the rows and of the columns;
\* names[k] is the display name, as given, of the competitor whose votes are
\* in row k and whose received points are in column k.
C5_OrderedBySortKey ==
    m_pc \in {"votes", "done"} =>
        /\ Len(competitor_ids) = Len(competitors)
        /\ {competitor_ids[k] : k \in 1..Len(competitor_ids)}
             = {competitors[k][1] : k \in 1..Len(competitors)}
        /\ \A k, l \in 1..Len(competitor_ids) :
            k < l => ~StrLess(NameSortKey(names[l]), NameSortKey(names[k]))
        /\ \A k \in 1..Len(competitor_ids) :
            /\ \E c \in 1..Len(competitors) :
                competitors[c] = <<competitor_ids[k], names[k]>>
            /\ \A l \in 1..Len(competitor_ids) :
                matrix[k][l] = CellSum(m_i - 1, competitor_ids[k], competitor_ids[l])

\* Three competitors whose key order is neither the order of the raw names
\* nor the order of the dict, one name with an emoji, and a counted vote.
C5_Witness ==
    /\ m_pc = "done"
    /\ Len(names) = 3
    /\ \E k \in 1..3 : names[k] = Name_sun_amy
    /\ \E k, l \in 1..3 : k < l /\ StrLess(names[l], names[k])
    /\ competitor_ids # DictKeys(competitors)
    /\ \E i, j \in 1..3 : matrix[i][j] > 0

\* The points of the votes of one voter, in file order (0 for the others).
PointsBy(voter_id) ==
    [k \in 1..Len(votes_csv) |->
        IF votes_csv[k].voter_id = voter_id THEN PointsOf(votes_csv[k]) ELSE 0]

\* How many votes of one voter satisfy a test of their points.
VotesBy(voter_id, Test(_)) ==
    Cardinality({k \in 1..Len(votes_csv) :
                    votes_csv[k].voter_id = voter_id /\ Test(PointsOf(votes_csv[k]))})

\* C6: load_voter_stats returns one record per voter id that occurs in the
\* votes; its totalPoints is the sum of all the voter's points (zero and
\* negative ones too), numVotes the number of the voter's votes, and
\* numPositiveVotes the number of those with points > 0.
C6_OneRecordPerVoterWithTotals ==
    s_pc = "done" =>
        /\ {voter_stats[k].voter_id : k \in 1..Len(voter_stats)}
             = {votes_csv[k].voter_id : k \in 1..Len(votes_csv)}
        /\ \A k, l \in 1..Len(voter_stats) :
            k # l => voter_stats[k].voter_id # voter_stats[l].voter_id
        /\ \A k \in 1..Len(voter_stats) :
            LET st == voter_stats[k]
            IN  /\ st.total_points = SeqSum(PointsBy(st.voter_id))
                /\ st.num_votes = VotesBy(st.voter_id, LAMBDA p : TRUE)
                /\ st.num_positive_votes = VotesBy(st.voter_id, LAMBDA p : p > 0)

\* One voter cast a positive, a zero and a negative vote.
C6_Witness ==
    /\ s_pc = "done"
    /\ \E k \in 1..Len(voter_stats) :
        /\ voter_stats[k].num_votes = 3
        /\ voter_stats[k].num_positive_votes = 1
        /\ voter_stats[k].total_points = 1

\* The display name of an id: the mapped name, the id itself when
\* competitors has no such key.
DisplayName(id) ==
    IF \E c \in 1..Len(competitors) : competitors[c][1] = id
    THEN competitors[CHOOSE c \in 1..Len(competitors) : competitors[c][1] = id][2]
    ELSE id

\* C7: an id that competitors does not hold is no error; load_voter_stats
\* names such a voter by the id and build_top_tracks such a submitter by the
\* id, and an id that competitors holds gets the mapped name.
C7_UnknownIdFallsBackToId ==
    /\ s_pc # "error"
    /\ t_pc # "error"
    /\ \A k \in 1..Len(stats_map) :
        stats_map[k].name = DisplayName(stats_map[k].voter_id)
    /\ s_pc = "done" =>
        \A k \in 1..Len(voter_stats) :
            voter_stats[k].name = DisplayName(voter_stats[k].voter_id)
    /\ t_pc = "submissions" =>
        \A k \in 1..Len(tracks) :
            tracks[k].submitter_name = DisplayName(submissions_csv[k].submitter_id)
    /\ t_pc = "done" =>
        /\ Len(top_tracks) = Len(submissions_csv)
        /\ {top_tracks[k].submitter_name : k \in 1..Len(top_tracks)}
             = {DisplayName(submissions_csv[k].submitter_id) :
                    k \in 1..Len(submissions_csv)}

\* Both functions have returned; a known and the unknown id voted, and a
\* known and the unknown id submitted.
C7_Witness ==
    /\ s_pc = "done"
    /\ t_pc = "done"
    /\ \E k, l \in 1..Len(voter_stats) :
        /\ voter_stats[k].name = Id_x9
        /\ voter_stats[l].voter_id = Id_c1 /\ voter_stats[l].name = Name_Zoe
    /\ \E k, l \in 1..Len(top_tracks) :
        /\ top_tracks[k].submitter_name = Id_x9
        /\ top_tracks[l].submitter_name \in {Name_Zoe, Name_amy}

Abs(n) == IF n < 0 THEN 0 - n ELSE n

\* hundredths is the hundredth nearest to total / count, and 0 when count = 0.
IsRoundedQuotient(hundredths, total, count) ==
    IF count = 0 THEN hundredths = 0
    ELSE 2 * Abs(100 * total - hundredths * count) <= count

\* x is total / count, and 0.0 when count = 0; no division error.
IsQuotientOrZero(x, total, count) ==
    /\ x.ok
    /\ IF count = 0 THEN x.num = 0
       ELSE x.num * count = total * x.den

\* C8: avgPointsPerVote is 0 when numVotes = 0 and totalPoints / numVotes
\* otherwise, avgPointsWhenPositive is 0 when numPositiveVotes = 0 and
\* totalPoints / numPositiveVotes otherwise, and neither raises a division
\* error (build_html, which reads both of every record, never fails).
C8_AveragesDefinedWithoutDivisionError ==
    /\ h_pc # "error"
    /\ \A k \in 1..Len(voters) :
        LET v == voters[k]
        IN  /\ IsQuotientOrZero(AvgPointsPerVote(v), v.total_points, v.num_votes)
            /\ IsQuotientOrZero(AvgPointsWhenPositive(v), v.total_points,
                                v.num_positive_votes)
    /\ h_pc = "done" =>
        \A k \in 1..Len(table_rows) :
            LET r == table_rows[k]
            IN  /\ IsRoundedQuotient(r.avg_points_per_vote, r.total_points, r.num_votes)
                /\ IsRoundedQuotient(r.avg_points_when_positive, r.total_points,
                                     r.num_positive_votes)

\* build_html has returned for a record without votes but with points, a
\* record with votes none of which is positive, and a record with both.
C8_Witness ==
    /\ h_pc = "done"
    /\ \E k, l, m \in 1..Len(voters) :
        /\ voters[k].num_votes = 0 /\ voters[k].total_points # 0
        /\ voters[l].num_votes > 0 /\ voters[l].num_positive_votes = 0
        /\ voters[m].num_votes = 2 /\ voters[m].num_positive_votes = 1
        /\ voters[m].total_points = -1

\* The voter a table row shows.
VoterNamed(name) == voters[CHOOSE k \in 1..Len(voters) : voters[k].name = name]

\* v comes before w in the canonical order, or they are level.
NotBelow(v, w) ==
    LET vt == IF v.num_votes = 0 THEN 0 ELSE v.total_points
        vn == IF v.num_votes = 0 THEN 1 ELSE v.num_votes
        wt == IF w.num_votes = 0 THEN 0 ELSE w.total_points
        wn == IF w.num_votes = 0 THEN 1 ELSE w.num_votes
    IN  \/ vt * wn > wt * vn
        \/ vt * wn = wt * vn /\ v.total_points >= w.total_points

\* C9: build_html lists the voters in descending order of avgPointsPerVote,
\* voters of equal average in descending order of totalPoints, with the ranks
\* 1, 2, ..., n; the chart labels and the chart values are in that order.
C9_RankedByGenerosity ==
    h_pc = "done" =>
        /\ Len(table_rows) = Len(voters)
        /\ {table_rows[k].name : k \in 1..Len(table_rows)}
             = {voters[k].name : k \in 1..Len(voters)}
        /\ \A k \in 1..Len(table_rows) :
            LET v == VoterNamed(table_rows[k].name)
            IN  /\ table_rows[k].rank = k
                /\ table_rows[k].total_points = v.total_points
                /\ table_rows[k].num_votes = v.num_votes
                /\ chart_labels[k] = v.name
                /\ IsRoundedQuotient(chart_values[k], v.total_points, v.num_votes)
                /\ \A l \in 1..Len(table_rows) :
                    k < l => NotBelow(v, VoterNamed(table_rows[l].name))
        /\ Len(chart_labels) = Len(voters)
        /\ Len(chart_values) = Len(voters)

\* Three voters given in ascending order of generosity, two of them with the
\* same average and different totals.
C9_Witness ==
    /\ h_pc = "done"
    /\ Len(voters) = 3
    /\ voters[1].num_votes = 1 /\ voters[1].total_points = 0
    /\ voters[2].num_votes = 1 /\ voters[2].total_points = 2
    /\ voters[3].num_votes = 2 /\ voters[3].total_points = 4
    /\ table_rows[1].name = voters[3].name
    /\ table_rows[3].name = voters[1].name

Min(a, b) == IF a < b THEN a ELSE b

\* The artist strings of the submissions.
ArtistsSubmitted == {submissions_csv[k].artist : k \in 1..Len(submissions_csv)}

\* C10: build_top_tracks returns min(N, number of submission rows) tracks and
\* build_top_artists min(N, number of distinct artist strings) artists, for
\* every limit N (a count, 0 or more) and every input; with fewer than N
\* items all of them are returned.
C10_LengthIsMinOfLimitAndItems ==
    /\ t_pc = "done" =>
        /\ Len(top_tracks) = Min(t_top_n, Len(submissions_csv))
        /\ Len(submissions_csv) <= t_top_n =>
            \A k \in 1..Len(submissions_csv) :
                LET same(t) == /\ t.title = submissions_csv[k].title
                               /\ t.artist = submissions_csv[k].artist
                    row(r)  == /\ r.title = submissions_csv[k].title
                               /\ r.artist = submissions_csv[k].artist
                IN  Cardinality({i \in 1..Len(top_tracks) : same(top_tracks[i])})
                      = Cardinality({j \in 1..Len(submissions_csv) :
                                        row(submissions_csv[j])})
    /\ a_pc = "done" =>
        /\ Len(top_artists) = Min(a_top_n, Cardinality(ArtistsSubmitted))
        /\ Cardinality(ArtistsSubmitted) <= a_top_n =>
            {top_artists[k].artist : k \in 1..Len(top_artists)} = ArtistsSubmitted

\* Both functions have returned with limit 1 for two submissions of two
\* artists: one track and one artist are returned.
C10_Witness ==
    /\ t_pc = "done"
    /\ a_pc = "done"
    /\ t_top_n = 1
    /\ Len(submissions_csv) = 2
    /\ Cardinality(ArtistsSubmitted) = 2
    /\ Len(top_tracks) = 1
    /\ Len(top_artists) = 1

\* The sum of pointsAssigned over the votes for (round_id, uri).
KeySum(round_id, uri) ==
    SeqSum([k \in 1..Len(votes_csv) |->
              IF votes_csv[k].round_id = round_id /\ votes_csv[k].uri = uri
              THEN PointsOf(votes_csv[k]) ELSE 0])

\* The vote sum of the track of submission row j.
RowPoints(j) == KeySum(submissions_csv[j].round_id, submissions_csv[j].uri)

\* The points a function has accumulated for the track of submission row j
\* (points is its track_points; C12 and C14 relate them to the votes).
PointsIn(points, j) ==
    LET key == <<submissions_csv[j].round_id, submissions_csv[j].uri>>
    IN  IF key \in DOMAIN points THEN points[key] ELSE 0

\* The place of submission row j in the full ranking of the tracks: behind
\* the rows with more points and the earlier rows with the same points.
TrackRank(j) ==
    1 + Cardinality({i \in 1..Len(submissions_csv) :
                        \/ PointsIn(track_points, i) > PointsIn(track_points, j)
                        \/ /\ PointsIn(track_points, i) = PointsIn(track_points, j)
                           /\ i < j})

\* The first submission row with the artist string.
FirstSeen(artist) ==
    CHOOSE j \in 1..Len(submissions_csv) :
        /\ submissions_csv[j].artist = artist
        /\ \A i \in 1..(j - 1) : submissions_csv[i].artist # artist

\* The points of an artist: the sum, over the submission rows with the artist
\* string, of the points of the row's track.
ArtistPoints(artist) ==
    SeqSum([j \in 1..Len(submissions_csv) |->
              IF submissions_csv[j].artist = artist
              THEN PointsIn(a_track_points, j) ELSE 0])

\* The place of an artist in the full ranking of the artists.
ArtistRank(artist) ==
    1 + Cardinality({b \in ArtistsSubmitted :
                        \/ ArtistPoints(b) > ArtistPoints(artist)
                        \/ /\ ArtistPoints(b) = ArtistPoints(artist)
                           /\ FirstSeen(b) < FirstSeen(artist)})

\* C11: the lists build_top_tracks and build_top_artists return are in
\* non-increasing order of points and are a prefix of the full ranking: the
\* k-th returned track is the submission row ranked k-th by (points
\* descending, file position ascending), the k-th returned artist is the
\* artist ranked k-th by (points descending, first appearance ascending); so
\* no omitted item has more points than a returned one and ties keep
\* submission-file order (tracks) and first-seen order (artists).
C11_SortedPrefixOfStableRanking ==
    /\ t_pc = "done" =>
        /\ \A k \in 1..(Len(top_tracks) - 1) :
              top_tracks[k].points >= top_tracks[k + 1].points
        /\ \A k \in 1..Len(top_tracks) :
              \E j \in 1..Len(submissions_csv) :
                  /\ TrackRank(j) = k
                  /\ top_tracks[k].title = submissions_csv[j].title
                  /\ top_tracks[k].artist = submissions_csv[j].artist
                  /\ top_tracks[k].points = PointsIn(track_points, j)
    /\ a_pc = "done" =>
        /\ \A k \in 1..(Len(top_artists) - 1) :
              top_artists[k].points >= top_artists[k + 1].points
        /\ \A k \in 1..Len(top_artists) :
              /\ top_artists[k].artist \in ArtistsSubmitted
              /\ ArtistRank(top_artists[k].artist) = k
              /\ top_artists[k].points = ArtistPoints(top_artists[k].artist)

\* Both functions have returned one item of two: two submissions by two
\* artists with the same, non-zero points, of which the first in the file is
\* returned and the second is omitted.
C11_Witness ==
    /\ t_pc = "done"
    /\ a_pc = "done"
    /\ t_top_n = 1
    /\ Len(submissions_csv) = 2
    /\ submissions_csv[1].artist # submissions_csv[2].artist
    /\ RowPoints(1) = RowPoints(2)
    /\ RowPoints(1) # 0
    /\ Len(top_tracks) = 1
    /\ top_tracks[1].artist = submissions_csv[1].artist
    /\ Len(top_artists) = 1
    /\ top_artists[1].artist = submissions_csv[1].artist

\* C12: every track build_top_tracks returns is the track of a submission
\* row, with the sum of pointsAssigned over all the votes for the row's
\* (roundId, spotifyUri) as its points: zero and negative votes count, a
\* track without votes has 0, and a vote for a key no submission has is in
\* no track's points.  The list that is cut has one track per submission row.
C12_TrackPointsAreVoteSums ==
    t_pc = "done" =>
        /\ Len(tracks) = Len(submissions_csv)
        /\ \A k \in 1..Len(top_tracks) :
              \E j \in 1..Len(submissions_csv) :
                  /\ top_tracks[k].title = submissions_csv[j].title
                  /\ top_tracks[k].artist = submissions_csv[j].artist
                  /\ top_tracks[k].points = KeySum(submissions_csv[j].round_id,
                                                   submissions_csv[j].uri)

\* build_top_tracks has returned a track with a negative total, after a
\* positive and a negative vote of which one is for a round no submission
\* has.
C12_Witness ==
    /\ t_pc = "done"
    /\ \E k \in 1..Len(top_tracks) : top_tracks[k].points < 0
    /\ \E k \in 1..Len(votes_csv) :
          \A j \in 1..Len(submissions_csv) :
              submissions_csv[j].round_id # votes_csv[k].round_id
    /\ Len(votes_csv) = 2
    /\ PointsOf(votes_csv[1]) > 0
    /\ PointsOf(votes_csv[2]) < 0

\* The rows of rounds.csv with the round id.
RoundRowsOf(round_id) == {k \in 1..Len(rounds_csv) : rounds_csv[k].id = round_id}

\* The name of a round: of the rows of rounds.csv with the id, the one created
\* last (of several created at once, the last in the file); the placeholder
\* when there is no such row or no rounds.csv.
NameOfRound(round_id) ==
    IF ~rounds_exists \/ RoundRowsOf(round_id) = {} THEN "Round"
    ELSE LET last == CHOOSE k \in RoundRowsOf(round_id) :
                        \A l \in RoundRowsOf(round_id) \ {k} :
                            \/ StrLess(rounds_csv[l].created, rounds_csv[k].created)
                            \/ /\ rounds_csv[l].created = rounds_csv[k].created
                               /\ l < k
         IN  rounds_csv[last].name

\* C13: the round_name of a track is the name of the round with the track's
\* round id when rounds.csv has it and "Round" when it has not; without a
\* rounds.csv every track has "Round" and build_top_tracks returns all the
\* same.  (In this specification the title of a track tells its round.)
C13_RoundNameOrPlaceholder ==
    /\ t_pc # "error"
    /\ t_pc = "done" =>
        /\ Len(top_tracks) = Len(submissions_csv)
        /\ \A k \in 1..Len(top_tracks) :
              \E j \in 1..Len(submissions_csv) :
                  /\ top_tracks[k].title = submissions_csv[j].title
                  /\ top_tracks[k].round_name
                        = NameOfRound(submissions_csv[j].round_id)
        /\ ~rounds_exists =>
              \A k \in 1..Len(top_tracks) : top_tracks[k].round_name = "Round"

\* build_top_tracks has returned a track of round r1, named as rounds.csv
\* names r1, and a track of round r2, which rounds.csv does not have, named
\* "Round".
C13_Witness ==
    /\ t_pc = "done"
    /\ rounds_exists
    /\ Len(rounds_csv) = 2
    /\ rounds_csv[1].id = "r1" /\ rounds_csv[1].name = "Week 2"
    /\ rounds_csv[2].id = "r9"
    /\ Len(top_tracks) = 2
    /\ top_tracks[1].title = "t1" /\ top_tracks[1].round_name = "Week 2"
    /\ top_tracks[2].title = "t2" /\ top_tracks[2].round_name = "Round"

\* The sum, over the submission rows with the artist string, of the vote sum
\* of the row's track.
ArtistSum(artist) ==
    SeqSum([j \in 1..Len(submissions_csv) |->
              IF submissions_csv[j].artist = artist THEN RowPoints(j) ELSE 0])

\* C14: with a limit that cuts nothing off, build_top_artists returns exactly
\* one entry per distinct artist string of the submissions ("Artist A" and
\* "artist a" are two), whose points are the sum over the submission rows
\* with that string of the row's vote sum; an artist without votes is there
\* with 0 points.
C14_OneEntryPerArtistString ==
    (a_pc = "done" /\ a_top_n >= Cardinality(ArtistsSubmitted)) =>
        /\ Len(top_artists) = Cardinality(ArtistsSubmitted)
        /\ \A k \in 1..Len(top_artists) : top_artists[k].artist \in ArtistsSubmitted
        /\ \A artist \in ArtistsSubmitted :
              \E k \in 1..Len(top_artists) :
                  /\ top_artists[k].artist = artist
                  /\ top_artists[k].points = ArtistSum(artist)
                  /\ \A l \in 1..Len(top_artists) :
                        top_artists[l].artist = artist => l = k

\* build_top_artists has returned two artists whose strings differ in case
\* only: the first submitted without votes, with 0 points, behind the other,
\* whose track has votes.
C14_Witness ==
    /\ a_pc = "done"
    /\ Len(submissions_csv) = 2
    /\ submissions_csv[1].artist = "artist a"
    /\ submissions_csv[2].artist = "Artist A"
    /\ RowPoints(1) = 0
    /\ RowPoints(2) = 4
    /\ Len(top_artists) = 2
    /\ top_artists[1] = [artist |-> "Artist A", points |-> 4]
    /\ top_artists[2] = [artist |-> "artist a", points |-> 0]

\* The point values of the votes.
PointsObserved == {PointsOf(votes_csv[k]) : k \in 1..Len(votes_csv)}

\* M: the maximum pointsAssigned observed (there is a vote).
MaxObserved == CHOOSE p \in PointsObserved : \A q \in PointsObserved : q <= p

\* C15 as stated: whenever there is a vote, build_point_histogram returns
\* exactly M + 1 entries whose points are 0, 1, ..., M in ascending order.
C15_EntriesAreZeroToMax ==
    (p_pc = "done" /\ Len(votes_csv) >= 1) =>
        /\ Len(histogram) = MaxObserved + 1
        /\ \A k \in 1..Len(histogram) : histogram[k].points = k - 1

\* C15, amended: whenever there is a vote, build_point_histogram returns
\* exactly M + 1 entries whose points are 0, 1, ..., M in ascending order when
\* M is 0 or more, and no entry when M is negative.
C15_EntriesAreZeroToMaxOrNone ==
    (p_pc = "done" /\ Len(votes_csv) >= 1) =>
        /\ MaxObserved >= 0 => Len(histogram) = MaxObserved + 1
        /\ MaxObserved < 0 => Len(histogram) = 0
        /\ \A k \in 1..Len(histogram) : histogram[k].points = k - 1

\* build_point_histogram has returned three entries for votes of -2, 0 and 2
\* points, in any order.
C15_Witness ==
    /\ p_pc = "done"
    /\ Len(votes_csv) = 3
    /\ PointsObserved = {-2, 0, 2}
    /\ Len(histogram) = 3
    /\ histogram[2].points = 1

\* C16: the count of the entry for p is the number of votes with exactly p
\* points, 0 for a value no vote has; a vote with negative points is counted
\* in no entry, so the counts add up to the number of votes with 0 or more
\* points.
C16_CountsAreVotesPerValue ==
    p_pc = "done" =>
        /\ \A k \in 1..Len(histogram) :
              histogram[k].count =
                Cardinality({i \in 1..Len(votes_csv) :
                                PointsOf(votes_csv[i]) = histogram[k].points})
        /\ SeqSum([k \in 1..Len(histogram) |-> histogram[k].count])
              = Cardinality({i \in 1..Len(votes_csv) : PointsOf(votes_csv[i]) >= 0})

\* build_point_histogram has returned the counts 0, 0, 2 for two votes of 2
\* points and one of -1.
C16_Witness ==
    /\ p_pc = "done"
    /\ Len(votes_csv) = 3
    /\ PointsOf(votes_csv[1]) = 2
    /\ PointsOf(votes_csv[2]) = -1
    /\ PointsOf(votes_csv[3]) = 2
    /\ Len(histogram) = 3
    /\ histogram[1].count = 0 /\ histogram[2].count = 0 /\ histogram[3].count = 2

\* C17: with empty inputs no aggregator fails and each returns its empty or
\* zero result: load_voter_stats on no votes an empty list,
\* build_vote_matrix on no competitors empty names and an empty matrix and on
\* no votes a matrix of zeros, build_top_tracks and build_top_artists on no
\* submissions empty lists, build_point_histogram on no votes an empty list.
C17_EmptyInputsGiveEmptyResults ==
    /\ "error" \notin {s_pc, m_pc, t_pc, a_pc, p_pc}
    /\ (s_pc = "done" /\ votes_csv = <<>>) => voter_stats = <<>>
    /\ (m_pc = "done" /\ competitors = <<>>) => (names = <<>> /\ matrix = <<>>)
    /\ (m_pc = "done" /\ votes_csv = <<>>) =>
          /\ Len(names) = Len(competitors)
          /\ matrix = [g \in 1..Len(competitors) |->
                         [r \in 1..Len(competitors) |-> 0]]
    /\ (t_pc = "done" /\ submissions_csv = <<>>) => top_tracks = <<>>
    /\ (a_pc = "done" /\ submissions_csv = <<>>) => top_artists = <<>>
    /\ (p_pc = "done" /\ votes_csv = <<>>) => histogram = <<>>

\* Every aggregator has returned, for no competitors, no votes and no
\* submissions.
C17_Witness ==
    /\ competitors = <<>>
    /\ votes_csv = <<>> /\ votes_eof
    /\ submissions_csv = <<>> /\ submissions_eof
    /\ s_pc = "done" /\ m_pc = "done" /\ t_pc = "done"
    /\ a_pc = "done" /\ p_pc = "done"
    /\ voter_stats = <<>> /\ names = <<>> /\ matrix = <<>>
    /\ top_tracks = <<>> /\ top_artists = <<>> /\ histogram = <<>>

\* C18 as stated: the sort key is idempotent (the key of a name's key is
\* that key) and case-insensitive (two names that differ only in letter case
\* have the same key).
C18_IdempotentAndCaseInsensitive ==
    /\ k_pc \in {"keyed", "done"} => k_other_key = k_key
    /\ k_pc = "done" => k_key2 = k_key

\* Two names that differ only in the case of Basic Latin letters.
DifferInLatinCaseOnly(a, b) ==
    /\ Len(a) = Len(b)
    /\ \A i \in 1..Len(a) :
          \/ a[i] = b[i]
          \/ a[i] \in 65..90 /\ b[i] = a[i] + 32
          \/ b[i] \in 65..90 /\ a[i] = b[i] + 32

\* C18, amended: the sort key is idempotent, and two names that differ only
\* in the case of Basic Latin letters have the same key.
C18_IdempotentAndLatinCaseInsensitive ==
    /\ (k_pc \in {"keyed", "done"} /\ DifferInLatinCaseOnly(k_name, k_other))
          => k_other_key = k_key
    /\ k_pc = "done" => k_key2 = k_key

\* The key of a name with a capital letter and an emoji has been taken, with
\* the key of a name that differs in case and the key of the key.
C18_Witness ==
    /\ k_pc = "done"
    /\ k_name = <<9728, 65, 32>>
    /\ k_other = <<9728, 97, 32>>
    /\ k_key = <<97>>
    /\ k_other_key = <<97>>
    /\ k_key2 = <<97>>

\* The positions of a name with a code point that is neither emoji nor
\* whitespace.
Core(name) == {i \in 1..Len(name) : ~IsEmoji(name[i]) /\ ~IsSpace(name[i])}

\* The positions of a name that are left when the emoji are removed and the
\* surrounding whitespace is trimmed.
Kept(name) ==
    {i \in 1..Len(name) :
        /\ ~IsEmoji(name[i])
        /\ \E l \in Core(name) : l <= i
        /\ \E h \in Core(name) : i <= h}

\* d is a lowercase of c: the small form of a capital (either small sigma for
\* the capital sigma), c itself otherwise.
IsLowerOf(d, c) ==
    IF c \in 65..90 THEN d = c + 32
    ELSE IF c = 931 THEN d \in {962, 963}
    ELSE d = c

\* key is the name without its emoji, trimmed and in lowercase or, that
\* being empty, the name in lowercase.
IsCleanedOrLowered(key, name) ==
    IF Core(name) # {}
    THEN /\ Len(key) = Cardinality(Kept(name))
         /\ \A i \in Kept(name) :
               IsLowerOf(key[Cardinality({j \in Kept(name) : j <= i})], name[i])
    ELSE /\ Len(key) = Len(name)
         /\ \A i \in 1..Len(name) : IsLowerOf(key[i], name[i])

\* C19 as stated: _name_sort_key removes the emoji, trims the whitespace and
\* lowercases, falls back to the lowercase of the name when that is empty,
\* and the sort key of a name is non-empty.
C19_KeyIsNonEmpty ==
    k_pc \in {"keyed", "done"} =>
        /\ IsCleanedOrLowered(k_key, k_name)
        /\ k_key # <<>>

\* C19, amended: _name_sort_key removes the emoji, trims the whitespace and
\* lowercases, falls back to the lowercase of the name when that is empty,
\* and the sort key of a non-empty name is non-empty.
C19_KeyOfNonEmptyNameIsNonEmpty ==
    k_pc \in {"keyed", "done"} =>
        /\ IsCleanedOrLowered(k_key, k_name)
        /\ IsCleanedOrLowered(k_other_key, k_other)
        /\ k_name # <<>> => k_key # <<>>

\* The key of a name of an emoji and a blank has been taken: the name itself.
C19_Witness ==
    /\ k_pc = "keyed"
    /\ k_name = <<9728, 32>>
    /\ k_key = <<9728, 32>>

\* C20: a row with a malformed or missing required field (a points value
\* that is no integer, a submission without its submitter id) makes the
\* aggregator that reads it fail, and no result is returned: when
\* build_vote_matrix has returned, no row it has read is such a row.
C20_MalformedRowIsFatal ==
    m_pc = "done" =>
        /\ \A k \in 1..Len(votes_csv) : ParseInt(votes_csv[k].points).ok
        /\ \A k \in 1..Len(submissions_csv) :
              submissions_csv[k].submitter_id # <<>>

\* C24: after any number of vote rows processed by load_voter_stats, every
\* accumulated record has 0 <= numPositiveVotes <= numVotes and numVotes >= 1,
\* the numVotes of the records add up to the number of rows processed, and
\* their totalPoints to the sum of pointsAssigned of the rows processed.
C24_RecordsAccountForRowsProcessed ==
    s_pc \in {"votes", "done"} =>
        /\ \A k \in 1..Len(stats_map) :
              /\ 0 <= stats_map[k].num_positive_votes
              /\ stats_map[k].num_positive_votes <= stats_map[k].num_votes
              /\ stats_map[k].num_votes >= 1
        /\ SeqSum([k \in 1..Len(stats_map) |-> stats_map[k].num_votes]) = s_i - 1
        /\ SeqSum([k \in 1..Len(stats_map) |-> stats_map[k].total_points])
              = SeqSum([k \in 1..(s_i - 1) |-> PointsOf(votes_csv[k])])

\* Three rows have been processed and the file has not ended: there are two
\* records, one of them for two votes, none positive, with -1 points in all.
C24_Witness ==
    /\ s_pc = "votes"
    /\ s_i = 4
    /\ Len(stats_map) = 2
    /\ \E k \in 1..2 :
          /\ stats_map[k].num_votes = 2
          /\ stats_map[k].num_positive_votes = 0
          /\ stats_map[k].total_points = -1

\* Several rows of submissions.csv have the (round, uri).
Duplicated(round_id, uri) ==
    \E k, l \in 1..Len(submissions_csv) :
        /\ k # l
        /\ submissions_csv[k].round_id = round_id /\ submissions_csv[k].uri = uri
        /\ submissions_csv[l].round_id = round_id /\ submissions_csv[l].uri = uri

\* The submitter of the last row of submissions.csv with the (round, uri).
LastSubmitter(round_id, uri) ==
    LET rows == {k \in 1..Len(submissions_csv) :
                    /\ submissions_csv[k].round_id = round_id
                    /\ submissions_csv[k].uri = uri}
    IN  submissions_csv[CHOOSE k \in rows : \A l \in rows : l <= k].submitter_id

\* What build_vote_matrix adds to the cell (giver, receiver) for a vote row
\* when the vote is attributed to the submitter.
Attributed(row, submitter, giver, receiver) ==
    IF /\ PointsOf(row) > 0
       /\ row.voter_id # submitter
       /\ row.voter_id = giver
       /\ submitter = receiver
    THEN PointsOf(row) ELSE 0

\* This step of build_top_tracks appends the track of submission row t_i.
AppendsTrack == t_pc = "submissions" /\ t_i' = t_i + 1

\* C23: when several submission rows share a (roundId, spotifyUri),
\* build_vote_matrix attributes every vote for the key to the submitter of the
\* last such row in file order (that submitter is the one of the self-vote
\* test and of the receiving column), while build_top_tracks emits one track
\* per row, each with the full point sum of the key.
C23_LastSubmitterReceivesEachRowGetsSum ==
    [][/\ (ProcessesVote /\ Duplicated(votes_csv'[m_i].round_id, votes_csv'[m_i].uri))
          => LET row  == votes_csv'[m_i]
                 last == LastSubmitter(row.round_id, row.uri)
             IN  \A i, j \in 1..Len(competitor_ids) :
                     matrix'[i][j] = matrix[i][j]
                        + Attributed(row, last, competitor_ids[i], competitor_ids[j])
       /\ (AppendsTrack /\ Duplicated(submissions_csv[t_i].round_id,
                                       submissions_csv[t_i].uri))
          => /\ Len(tracks') = t_i
             /\ \A k \in 1..Len(tracks) : tracks'[k] = tracks[k]
             /\ tracks'[t_i].submitter_name
                   = DisplayName(submissions_csv[t_i].submitter_id)
             /\ tracks'[t_i].points = KeySum(submissions_csv[t_i].round_id,
                                            submissions_csv[t_i].uri)]_vars

\* c1 and then c2 submitted the track of r1; each gave it 2 points.  The vote
\* of c1 is in the column of c2, the vote of c2 is a self-vote, and there are
\* two tracks, one by each submitter, with 4 points each.
C23_Witness ==
    /\ m_pc = "done" /\ t_pc = "done"
    /\ Len(submissions_csv) = 2
    /\ submissions_csv[1].submitter_id = Id_c1
    /\ submissions_csv[2].submitter_id = Id_c2
    /\ Duplicated("r1", "t1")
    /\ Len(votes_csv) = 2
    /\ votes_csv[1].voter_id = Id_c1 /\ votes_csv[2].voter_id = Id_c2
    /\ \A i, j \in 1..2 :
          matrix[i][j] = IF competitor_ids[i] = Id_c1 /\ competitor_ids[j] = Id_c2
                         THEN 2 ELSE 0
    /\ Len(tracks) = 2
    /\ \A k \in 1..2 : tracks[k].points = 4
    /\ tracks[1].submitter_name # tracks[2].submitter_name

\* C21: the five aggregators share no mutable state.  On a fixed input, in
\* whatever order they run and however their steps interleave, each returns
\* what it returns alone, and no step of an aggregator changes the competitors
\* it is given.
C21_ResultsAreThoseOfEachAlone ==
    /\ [](/\ s_pc = "done" =>
               voter_stats = StatsMapOf(votes_csv, competitors, Len(votes_csv))
          /\ m_pc = "done" =>
               /\ names = NamesOf(competitors)
               /\ matrix = MatrixOf(votes_csv, submissions_csv, competitors,
                                    Len(votes_csv))
          /\ t_pc = "done" =>
               top_tracks = TopTracksOf(votes_csv, submissions_csv, competitors,
                                        t_top_n)
          /\ a_pc = "done" =>
               top_artists = TopArtistsOf(votes_csv, submissions_csv, a_top_n)
          /\ p_pc = "done" => histogram = HistogramOf(votes_csv))
    /\ [][competitors' = competitors]_vars

\* On two votes with 2 points and a submission, build_top_artists and
\* build_point_histogram, the last two of main, have returned; load_voter_stats,
\* the first, has read no row, and build_vote_matrix and build_top_tracks are
\* in the middle of votes.csv.
C21_Witness ==
    /\ a_pc = "done" /\ Len(top_artists) = 1 /\ top_artists[1].points = 4
    /\ p_pc = "done" /\ Len(histogram) = 3 /\ histogram[3].count = 2
    /\ s_pc = "votes" /\ s_i = 1
    /\ m_pc = "votes" /\ m_i = 2 /\ \E g, r \in 1..2 : matrix[g][r] = 2
    /\ t_pc = "votes" /\ t_i = 2 /\ track_points[<<"r1", "t1">>] = 2

\* The five aggregations have completed.
AllAggregated ==
    /\ s_pc = "done" /\ m_pc = "done" /\ t_pc = "done"
    /\ a_pc = "done" /\ p_pc = "done"

\* load_competitors or a function called after it has failed.
Failed == main_pc = "error" \/ Raised

\* C22: in a run of main index.html is written at most once, and only after
\* load_competitors and all five aggregations have completed; when any of
\* them fails, nothing further is called, the run ends, and index.html is not
\* written.
C22_WrittenOnceAfterAllAndNotOnFailure ==
    /\ [](/\ Len(index_html) <= 1
          /\ index_html # <<>> =>
                /\ "competitors.csv" \notin missing
                /\ competitors = LoadCompetitors(competitors_csv, Len(competitors_csv))
                /\ AllAggregated
          /\ Failed => index_html = <<>>)
    /\ [][Failed => (main_pc' = "error" /\ index_html' = <<>>)]_vars
    /\ (Failed ~> main_pc = "error")

\* main has returned after writing index.html once: competitors.csv had two
\* rows of one id, votes.csv two votes, and the html has the one voter's row
\* and a matrix of one competitor.
C22_Witness ==
    /\ main_pc = "done"
    /\ Len(index_html) = 1
    /\ Len(competitors_csv) = 2 /\ Len(competitors) = 1
    /\ Len(votes_csv) = 2
    /\ Len(index_html[1].table_rows) = 1
    /\ Len(index_html[1].matrix) = 1
    /\ Len(index_html[1].point_histogram) = 3

====
